---------------------------- MODULE Spec2Model ----------------------------
(***************************************************************************)
(* Model of the Marome market-data backend (src/server.js): the per-class  *)
(* quote endpoints, the all-movers aggregator, the two heatmap builders    *)
(* and the economic calendar, each behind its process-wide cache slot.     *)
(*                                                                         *)
(* A request handler is a sequence of steps separated by the awaits of the *)
(* code (an http.get in flight, a sleep); one action is everything the     *)
(* handler does between two awaits.  Providers are the environment: every  *)
(* provider reply is drawn from a small set of reply kinds.                *)
(*                                                                         *)
(* JavaScript numbers are fixed-point values in thousandths (1000 = 1.0),  *)
(* together with NaN, +Infinity, -Infinity and the finite numbers of       *)
(* magnitude 1e21 or more; null is a value of its own.                     *)
(***************************************************************************)
EXTENDS Integers, Sequences, FiniteSets, TLC

(***************************************************************************)
(* Bounds of the model                                                     *)
(***************************************************************************)
\* number of requests of one behaviour
MaxReq == 2
\* number of times the providers change the kind of reply they give
MaxChanges == 1
\* length of the free part of an aggregator input
MaxLen == 3

(***************************************************************************)
(* JavaScript values                                                       *)
(***************************************************************************)
\* fixed-point resolution: three decimals
Scale == 10 * 10 * 10

Fin(n) == [k |-> "fin", v |-> n]
\* a finite number whose magnitude is at least 1e21, by its sign
Big(sign) == [k |-> "big", v |-> sign]
NaN == [k |-> "nan", v |-> 0]
PInf == [k |-> "inf", v |-> 1]
NInf == [k |-> "inf", v |-> -1]
Null == [k |-> "null", v |-> 0]
\* a JSON string that is not the text of a number
NotANumber == [k |-> "str", v |-> 0]

IsNumber(x) == x.k \in {"fin", "big", "nan", "inf"}
IsFinite(x) == x.k \in {"fin", "big"}

\* Math.abs
Abs(x) ==
  IF x.k = "fin" THEN Fin(IF x.v < 0 THEN -x.v ELSE x.v)
  ELSE IF x.k = "big" THEN Big(1)
  ELSE IF x.k = "inf" THEN PInf
  ELSE NaN

\* a > b on numbers: false as soon as one side is NaN
Gt(a, b) ==
  IF a.k = "nan" \/ b.k = "nan" THEN FALSE
  ELSE IF a.k = "inf" THEN a.v = 1 /\ ~(b.k = "inf" /\ b.v = 1)
  ELSE IF b.k = "inf" THEN b.v = -1
  ELSE IF a.k = "big" THEN a.v = 1 /\ ~(b.k = "big" /\ b.v = 1)
  ELSE IF b.k = "big" THEN b.v = -1
  ELSE a.v > b.v

\* a >= b on numbers
Ge(a, b) ==
  IF a.k = "nan" \/ b.k = "nan" THEN FALSE
  ELSE ~Gt(b, a)

\* a - b on numbers
Sub(a, b) ==
  IF a.k = "nan" \/ b.k = "nan" THEN NaN
  ELSE IF a.k = "inf" /\ b.k = "inf" THEN (IF a.v = b.v THEN NaN ELSE a)
  ELSE IF a.k = "inf" THEN a
  ELSE IF b.k = "inf" THEN (IF b.v = 1 THEN NInf ELSE PInf)
  ELSE Fin(a.v - b.v)

\* integer quotient rounded toward zero
Quot(a, b) ==
  LET q == (IF a < 0 THEN -a ELSE a) \div (IF b < 0 THEN -b ELSE b)
  IN IF (a < 0) = (b < 0) THEN q ELSE -q

\* ((current - previous) / previous) * 100
PctChange(current, previous) ==
  IF current.k = "nan" \/ previous.k = "nan" THEN NaN
  ELSE IF previous.v = 0
    THEN (IF current.v > 0 THEN PInf ELSE IF current.v < 0 THEN NInf ELSE NaN)
  ELSE Fin(Quot((current.v - previous.v) * 100 * Scale, previous.v))

\* parseFloat of a JSON field: a number stays, anything else is NaN
ParseFloat(x) == IF x.k = "fin" THEN x ELSE NaN

\* x.toFixed(2): the text of x with two decimals, as sign and hundredths; from
\* 1e21 on toFixed gives String(x), in exponent notation ("1e+21")
ToFixed2(x) ==
  IF x.k = "fin"
    THEN [txt |-> "digits", neg |-> x.v < 0,
          cents |-> ((IF x.v < 0 THEN -x.v ELSE x.v) * 100 + Scale \div 2) \div Scale]
  ELSE IF x.k = "big" THEN [txt |-> "exponent", neg |-> x.v < 0, cents |-> 0]
  ELSE IF x.k = "inf" THEN [txt |-> "Infinity", neg |-> x.v < 0, cents |-> 0]
  ELSE [txt |-> "NaN", neg |-> FALSE, cents |-> 0]

\* `${pct >= 0 ? "+" : ""}${pct.toFixed(2)}%`
PercentText(pct) ==
  [prefix |-> IF Ge(pct, Fin(0)) THEN "+" ELSE "", num |-> ToFixed2(pct), suffix |-> "%"]

\* pct >= 0 ? "positive" : "negative"
Trend(pct) == IF Ge(pct, Fin(0)) THEN "positive" ELSE "negative"

\* JSON.stringify of a number: a non-finite number is written as null
JsonNum(x) == IF x.k \in {"nan", "inf"} THEN Null ELSE x

(***************************************************************************)
(* Sequences                                                               *)
(***************************************************************************)
RECURSIVE SelectNumbers(_)
\* closes.filter(n => typeof n === "number")
SelectNumbers(s) ==
  IF s = <<>> THEN <<>>
  ELSE IF IsNumber(Head(s)) THEN <<Head(s)>> \o SelectNumbers(Tail(s))
  ELSE SelectNumbers(Tail(s))

\* closes.at(-d)
AtEnd(s, d) == s[Len(s) - d + 1]

Min(a, b) == IF a < b THEN a ELSE b
Max(a, b) == IF a > b THEN a ELSE b

\* array.slice(0, n)
Slice(s, n) == SubSeq(s, 1, Min(n, Len(s)))

(***************************************************************************)
(* Cache time-to-live, in milliseconds                                     *)
(***************************************************************************)
MOVERS_CACHE_TTL == 2 * 60 * 1000
GENERIC_TTL == 60 * 1000
HEATMAP_TTL == 5 * 60 * 1000
CALENDAR_TTL == 6 * 60 * 60 * 1000

(***************************************************************************)
(* Endpoints and their cache slots                                         *)
(***************************************************************************)
QuoteEndpoints == {"indices", "forex", "crypto", "commodities"}
HeatmapEndpoints == {"forex-heatmap", "crypto-heatmap"}
Endpoints ==
  QuoteEndpoints \cup HeatmapEndpoints \cup {"all-movers", "economic-calendar"}

\* the TTL each handler compares its slot's age with
TTL(e) ==
  CASE e \in QuoteEndpoints -> GENERIC_TTL
    [] e = "all-movers" -> MOVERS_CACHE_TTL
    [] e \in HeatmapEndpoints -> HEATMAP_TTL
    [] OTHER -> CALENDAR_TTL

(***************************************************************************)
(* Symbol tables, in the iteration order of Object.entries                 *)
(***************************************************************************)
Sym(n, s) == [name |-> n, symbol |-> s]

FOREX_PAIRS ==
  <<"EUR/USD", "GBP/USD", "USD/JPY", "USD/ZAR", "EUR/ZAR", "GBP/ZAR", "AUD/USD", "USD/CHF">>

EODHD_COMMODITIES ==
  <<Sym("Gold", "GLD.US"), Sym("Silver", "SLV.US"),
    Sym("Platinum", "PPLT.US"), Sym("Crude Oil", "USO.US")>>

INDEX_SYMBOLS ==
  <<Sym("S&P 500", "^GSPC"), Sym("NASDAQ 100", "^NDX"),
    Sym("Dow Jones", "^DJI"), Sym("JSE Top 40", "^J200.JO")>>

YAHOO_FOREX_SYMBOLS ==
  <<Sym("EUR/USD", "EURUSD=X"), Sym("GBP/USD", "GBPUSD=X"),
    Sym("USD/JPY", "USDJPY=X"), Sym("USD/ZAR", "USDZAR=X"),
    Sym("EUR/ZAR", "EURZAR=X"), Sym("GBP/ZAR", "GBPZAR=X"),
    Sym("AUD/USD", "AUDUSD=X"), Sym("USD/CHF", "USDCHF=X")>>

YAHOO_HEATMAP_SYMBOLS ==
  YAHOO_FOREX_SYMBOLS \o
  <<Sym("Gold", "GC=F"), Sym("Silver", "SI=F"), Sym("Crude Oil", "CL=F")>>

\* cryptoSymbols of /api/crypto and of /api/crypto-heatmap
CryptoSymbols ==
  <<Sym("BTC", "BTC-USD"), Sym("ETH", "ETH-USD"), Sym("XRP", "XRP-USD"),
    Sym("SOL", "SOL-USD"), Sym("ADA", "ADA-USD"), Sym("DOGE", "DOGE-USD"),
    Sym("AVAX", "AVAX-USD"), Sym("BNB", "BNB-USD"), Sym("LTC", "LTC-USD")>>

\* cryptoSymbols of fetchEodCryptoMovers
CryptoMoverSymbols == SubSeq(CryptoSymbols, 1, 5)

\* the timeframes of both heatmaps, with the query each one sends
Timeframes ==
  <<[tf |-> "1h", interval |-> "5m", range |-> "1d"],
    [tf |-> "4h", interval |-> "15m", range |-> "5d"],
    [tf |-> "1d", interval |-> "1d", range |-> "5d"],
    [tf |-> "1w", interval |-> "1d", range |-> "1mo"]>>

\* the symbol table a handler iterates
SymbolsOf(e) ==
  CASE e = "indices" -> INDEX_SYMBOLS
    [] e = "forex" -> YAHOO_FOREX_SYMBOLS
    [] e = "crypto" -> CryptoSymbols
    [] e = "commodities" -> EODHD_COMMODITIES
    [] e = "forex-heatmap" -> YAHOO_HEATMAP_SYMBOLS
    [] e = "crypto-heatmap" -> CryptoSymbols
    [] OTHER -> <<>>

\* the inter-request delay of a handler's loop, in milliseconds
SleepOf(e) ==
  CASE e = "indices" -> 120
    [] e = "forex" -> 100
    [] e = "crypto" -> 150
    [] e = "commodities" -> 200
    [] OTHER -> 100

(***************************************************************************)
(* The providers.  A provider reply is decided by its kind:                *)
(*   ok        the data of a normal day                                    *)
(*   throw     the call rejects (network error, HTTP error status)         *)
(*   nodata    the reply carries no result                                 *)
(*   short     the reply carries one usable sample only                    *)
(*   zeroprev  the previous price of the reply is 0                        *)
(*   nan       the numbers of the reply are 0/0 or are no numbers          *)
(***************************************************************************)
Kinds == {"ok", "throw", "nodata", "short", "zeroprev", "nan"}
OutageKinds == {"ok", "throw", "nodata"}

\* the previous close of a normal day
BasePrice == 100 * Scale

\* the percent change of a symbol on a normal day, in thousandths of a percent
Move(symbol) ==
  CASE symbol = "^GSPC" -> 850 [] symbol = "^NDX" -> -1200
    [] symbol = "^DJI" -> 300 [] symbol = "^J200.JO" -> -450
    [] symbol \in {"EURUSD=X", "EUR/USD"} -> 350
    [] symbol \in {"GBPUSD=X", "GBP/USD"} -> -350
    [] symbol \in {"USDJPY=X", "USD/JPY"} -> 120
    [] symbol \in {"USDZAR=X", "USD/ZAR"} -> -1100
    [] symbol \in {"EURZAR=X", "EUR/ZAR"} -> 900
    [] symbol \in {"GBPZAR=X", "GBP/ZAR"} -> 0
    [] symbol \in {"AUDUSD=X", "AUD/USD"} -> -250
    [] symbol \in {"USDCHF=X", "USD/CHF"} -> 50
    [] symbol = "BTC-USD" -> 2500 [] symbol = "ETH-USD" -> -3456
    [] symbol = "XRP-USD" -> 5000 [] symbol = "SOL-USD" -> -5000
    [] symbol = "ADA-USD" -> 4 [] symbol = "DOGE-USD" -> -4
    [] symbol = "AVAX-USD" -> 7250 [] symbol = "BNB-USD" -> -800
    [] symbol = "LTC-USD" -> 1000
    [] symbol = "GC=F" -> 600 [] symbol = "SI=F" -> -1500 [] symbol = "CL=F" -> 2000
    [] symbol = "GLD.US" -> 700 [] symbol = "SLV.US" -> -1500
    [] symbol = "PPLT.US" -> 1500 [] symbol = "USO.US" -> -2200
    [] OTHER -> 0

\* the number of samples a chart query returns on a normal day
SeriesLength(interval, range) ==
  CASE interval = "5m" -> 14
    [] interval = "15m" -> 18
    [] interval = "1d" /\ range = "1mo" -> 9
    [] OTHER -> 5

\* the closes of a normal day: a falling ramp up to the previous close, one gap,
\* and the last close Move(symbol) above the previous one
NormalCloses(symbol, n) ==
  [p \in 1..(n + 1) |->
     IF p = 2 THEN Null
     ELSE IF p = n + 1 THEN Fin(BasePrice + Move(symbol))
     ELSE Fin(BasePrice - 100 * (n - p))]

\* GET ${YAHOO_CHART}/${symbol}?interval=..&range=..
\* ok: the promise resolves; data: chart.result[0] is there
YahooChart(symbol, interval, range, kind) ==
  [ok |-> kind # "throw",
   data |-> kind \notin {"throw", "nodata"},
   closes |->
     CASE kind = "ok" -> NormalCloses(symbol, SeriesLength(interval, range))
       [] kind = "short" -> <<Null, Fin(BasePrice + Move(symbol))>>
       [] kind = "zeroprev" -> <<Fin(0), Null, Fin(BasePrice + Move(symbol))>>
       [] kind = "nan" -> <<Fin(0), Fin(0)>>
       [] OTHER -> <<>>]

\* GET https://eodhd.com/api/real-time/${symbol}
\* ok: the promise resolves; data: r.data is there
EodRealTime(symbol, kind) ==
  [ok |-> kind # "throw",
   data |-> kind \notin {"throw", "nodata"},
   close |-> IF kind \in {"short", "nan"} THEN NotANumber
             ELSE Fin(BasePrice + Move(symbol)),
   previousClose |-> IF kind = "nan" THEN NotANumber
                     ELSE IF kind = "zeroprev" THEN Fin(0)
                     ELSE Fin(BasePrice)]

TopItem(n, c, pct) == [name |-> n, code |-> c, change_percent |-> pct]

\* the screener lists of a normal day
NormalTop(side) ==
  IF side = "most_gainer_stocks"
    THEN <<TopItem("Apple", "AAPL", Fin(9500)), TopItem("NVIDIA", "NVDA", Fin(6000)),
           TopItem("Tesla", "TSLA", Fin(4000))>>
    ELSE <<TopItem("Pfizer", "PFE", Fin(-8000)), TopItem("Coca-Cola", "KO", Fin(-6000)),
           TopItem("JPMorgan", "JPM", Fin(-3000))>>

\* GET https://eodhd.com/api/top?screener=${side}&limit=${limit}
\* ok: the promise resolves; isArray: r.data is an array
EodTop(side, limit, kind) ==
  LET one == IF side = "most_gainer_stocks" THEN Fin(2000) ELSE Fin(-5000)
  IN [ok |-> kind # "throw",
      isArray |-> kind \notin {"throw", "nodata"},
      items |->
        CASE kind = "ok" -> Slice(NormalTop(side), limit)
          [] kind = "short" -> <<TopItem("Apple", "AAPL", one)>>
          [] kind = "zeroprev" -> <<TopItem("Apple", "AAPL", Null)>>
          [] kind = "nan" -> <<TopItem("Apple", "AAPL", NotANumber)>>
          [] OTHER -> <<>>]

\* GET https://api.twelvedata.com/quote?symbol=<all pairs>
\* ok: the promise resolves; has: the pairs r.data has an entry for
TwelveQuote(kind) ==
  [ok |-> kind # "throw",
   has |-> CASE kind \in {"throw", "nodata"} -> {}
             [] kind = "short" -> {FOREX_PAIRS[1]}
             [] OTHER -> {FOREX_PAIRS[i] : i \in 1..Len(FOREX_PAIRS)},
   percent_change |->
     [pair \in {FOREX_PAIRS[i] : i \in 1..Len(FOREX_PAIRS)} |->
        CASE kind = "zeroprev" -> Null
          [] kind = "nan" -> NotANumber
          [] OTHER -> Fin(Move(pair))]]

(***************************************************************************)
(* Array.prototype.sort with a comparator (a, b) => key(b) - key(a), as    *)
(* the engine of Node.js runs it on arrays shorter than 64: the leading    *)
(* run is found (and reversed when strictly descending), the rest is       *)
(* inserted by binary search.  A comparator result of NaN counts as 0.     *)
(* keys[i] is the key of the i-th element; the result is the order of the  *)
(* elements, as their positions in the input.                              *)
(***************************************************************************)
Sign(n) ==
  IF n.k = "nan" THEN 0
  ELSE IF n.k = "inf" THEN n.v
  ELSE IF n.v < 0 THEN -1 ELSE IF n.v > 0 THEN 1 ELSE 0

\* comparefn(x, y) = key(y) - key(x)
SortCompare(keys, x, y) == Sign(Sub(keys[y], keys[x]))

RECURSIVE RunLength(_, _, _)
RunLength(keys, desc, idx) ==
  IF idx > Len(keys) THEN idx - 1
  ELSE LET order == SortCompare(keys, idx, idx - 1)
       IN IF (desc /\ order >= 0) \/ (~desc /\ order < 0) THEN idx - 1
          ELSE RunLength(keys, desc, idx + 1)

RECURSIVE BinarySearch(_, _, _, _, _)
BinarySearch(keys, perm, pivot, left, right) ==
  IF left >= right THEN left
  ELSE LET mid == left + (right - left) \div 2
       IN IF SortCompare(keys, pivot, perm[mid]) < 0
            THEN BinarySearch(keys, perm, pivot, left, mid)
            ELSE BinarySearch(keys, perm, pivot, mid + 1, right)

RECURSIVE BinaryInsertionSort(_, _, _)
BinaryInsertionSort(keys, perm, start) ==
  IF start > Len(perm) THEN perm
  ELSE LET pivot == perm[start]
           left == BinarySearch(keys, perm, pivot, 1, start)
       IN BinaryInsertionSort(keys,
            SubSeq(perm, 1, left - 1) \o <<pivot>> \o SubSeq(perm, left, start - 1)
              \o SubSeq(perm, start + 1, Len(perm)),
            start + 1)

SortOrder(keys) ==
  LET n == Len(keys)
      desc == SortCompare(keys, 2, 1) < 0
      run == RunLength(keys, desc, 3)
      first == [i \in 1..n |-> IF desc /\ i <= run THEN run + 1 - i ELSE i]
  IN IF n < 2 THEN [i \in 1..n |-> i]
     ELSE BinaryInsertionSort(keys, first, run + 1)

\* array.sort((a, b) => Math.abs(b.rawChange) - Math.abs(a.rawChange))
SortByAbsChange(s) ==
  LET order == SortOrder([i \in 1..Len(s) |-> Abs(s[i].rawChange)])
  IN [i \in 1..Len(s) |-> s[order[i]]]

(***************************************************************************)
(* Records                                                                 *)
(***************************************************************************)
\* formatMover
formatMover(name, symbol, pct, type) ==
  [name |-> name,
   symbol |-> symbol,
   performance |-> PercentText(pct),
   rawChange |-> pct,
   type |-> type,
   trend |-> Trend(pct)]

\* the entry /api/indices pushes
IndexRecord(name, symbol, closes) ==
  LET pct == PctChange(AtEnd(closes, 1), AtEnd(closes, 2))
  IN [name |-> name, symbol |-> symbol, change |-> PercentText(pct),
      latest |-> ToFixed2(AtEnd(closes, 1)), rawChange |-> pct]

\* the entry /api/forex pushes
ForexRecord(pair, closes) ==
  LET pct == PctChange(AtEnd(closes, 1), AtEnd(closes, 2))
  IN [pair |-> pair, name |-> pair, change |-> PercentText(pct),
      trend |-> Trend(pct), price |-> AtEnd(closes, 1), rawChange |-> pct]

\* the entry /api/crypto pushes
CryptoRecord(name, symbol, closes) ==
  LET currentPrice == AtEnd(closes, 1)
      previousPrice == AtEnd(closes, 2)
      pct == PctChange(currentPrice, previousPrice)
  IN [name |-> name, symbol |-> symbol, price |-> ToFixed2(currentPrice),
      change |-> PercentText(pct), trend |-> Trend(pct), rawChange |-> pct]

\* the entry /api/commodities pushes
CommodityRecord(name, close, pct) ==
  LET displayPrice ==
        IF name \in {"Gold", "Silver", "Platinum"} THEN Fin(close.v * 10) ELSE close
  IN [name |-> name, symbol |-> name, change |-> PercentText(pct),
      trend |-> Trend(pct), price |-> ToFixed2(displayPrice), rawChange |-> pct]

\* res.json of a list of records: JSON has no NaN and no Infinity
JsonList(list) ==
  [i \in 1..Len(list) |-> [list[i] EXCEPT !.rawChange = JsonNum(@)]]

(***************************************************************************)
(* State                                                                   *)
(***************************************************************************)
VARIABLES
  now,        \* Date.now(), in milliseconds
  cache,      \* the eight cache variables (indicesCache, moversCache, ...), by endpoint
  cacheTime,  \* their timestamps (indicesCacheTime, moversCacheTimestamp, ...)
  req,        \* the requests, by order of arrival: position and locals of each handler
  provider,   \* the kind of the latest provider reply
  changes,    \* how many times the kind of reply has changed
  written,    \* history: whether and when each cache slot was last written
  served,     \* history: the latest response each endpoint gave after a fetch cycle
  aggIn,      \* the combined list handed to the aggregator's ranking
  aggOut,     \* what the ranking made of it
  strength,   \* the handler of /api/forex-strength: position, status and body
  fmt,        \* formatMover on its own: its percent and the record it returned
  cell,       \* one heatmap cell on its own: its series and the percent computed
  sa,         \* the handler of /api/sa-markets: position, sections, status and body
  EODHD_KEY   \* whether process.env.EODHD_API_KEY is set

vars == <<now, cache, cacheTime, req, provider, changes, written, served, aggIn, aggOut, strength, fmt, cell, sa, EODHD_KEY>>

ReqIds == 1..MaxReq

\* a cache variable holding null
Empty == [set |-> FALSE, value |-> <<>>]
\* a cache variable holding a payload
Holding(payload) == [set |-> TRUE, value |-> payload]

\* the four mover fetchers of /api/all-movers, in the order of the join
Fetchers == <<"stocks", "crypto", "forex", "commodities">>
FetcherNames == {Fetchers[n] : n \in 1..Len(Fetchers)}

\* a mover fetcher that has not been called
NoFetcher == [pc |-> "off", i |-> 0, items |-> <<>>, delay |-> 0, log |-> <<>>]

\* a request that has not arrived
NoRequest ==
  [ep |-> "none", pc |-> "idle", at |-> 0, hit |-> FALSE,
   seen |-> [set |-> FALSE, at |-> 0],
   prior |-> [set |-> FALSE, at |-> 0, body |-> <<>>],
   i |-> 0, j |-> 0, results |-> <<>>, tfResults |-> <<>>, delay |-> 0,
   calls |-> 0, log |-> <<>>, status |-> 0, body |-> <<>>,
   fet |-> [f \in FetcherNames |-> NoFetcher], joined |-> <<>>]

\* /api/forex-strength has not been requested
NoStrength == [pc |-> "idle", status |-> 0, body |-> <<>>, ok |-> FALSE, data |-> <<>>]
\* formatMover has not been called
NoFmt == [set |-> FALSE, percent |-> Null, type |-> "none", record |-> <<>>]
\* /api/sa-markets has not been requested
NoSa ==
  [pc |-> "idle", status |-> 0, body |-> <<>>, calls |-> <<>>, replies |-> <<>>,
   allIndices |-> <<>>, jseIndices |-> <<>>, allForex |-> <<>>, zarForex |-> <<>>,
   allCommodities |-> <<>>]
\* no cell has been computed
NoCell == [set |-> FALSE, tf |-> "none", series |-> <<>>, closes |-> <<>>, pct |-> Null]

Init ==
  /\ now = 0
  /\ cache = [e \in Endpoints |-> Empty]
  /\ cacheTime = [e \in Endpoints |-> 0]
  /\ req = [r \in ReqIds |-> NoRequest]
  /\ provider \in Kinds
  /\ changes = 0
  /\ written = [e \in Endpoints |-> [set |-> FALSE, at |-> 0]]
  /\ served = [e \in Endpoints |-> [set |-> FALSE, at |-> 0, body |-> <<>>]]
  /\ aggIn = <<>>
  /\ aggOut = [set |-> FALSE, map |-> <<>>, sorted |-> <<>>]
  /\ strength = NoStrength
  /\ fmt = NoFmt
  /\ cell = NoCell
  /\ sa = NoSa
  /\ EODHD_KEY = TRUE

\* no handler is between two awaits
Quiet == \A r \in ReqIds : req[r].pc \in {"idle", "done"}

\* requests are numbered in their order of arrival
NextToArrive(r) == req[r].pc = "idle" /\ (IF r = 1 THEN TRUE ELSE req[r - 1].pc # "idle")

\* a provider answers with a reply of this kind
Answers(kind) ==
  IF kind = provider
    THEN UNCHANGED <<provider, changes>>
    ELSE changes < MaxChanges /\ provider' = kind /\ changes' = changes + 1

(***************************************************************************)
(* The cache check every cached handler starts with                        *)
(***************************************************************************)
\* a faulty cache check: an entry of exactly the age TTL still counts as fresh
IsFreshInclusive(slot, time, clock, ttl) == slot.set /\ clock - time <= ttl

\* if (xCache && Date.now() - xCacheTime < X_TTL)
IsFresh(slot, time, clock, ttl) == slot.set /\ clock - time < ttl

\* the request as it is when its handler starts
Arrived(q, e) ==
  [q EXCEPT !.ep = e, !.at = now, !.seen = written[e], !.prior = served[e]]

\* return res.json(xCache)
AnswerFromCache(q, body) ==
  [q EXCEPT !.pc = "done", !.hit = TRUE, !.status = 200, !.body = body]

\* a faulty write: the payload is replaced and the timestamp left as it was
StorePayloadOnly(e, payload, body, clock) ==
  /\ cache' = [cache EXCEPT ![e] = Holding(payload)]
  /\ cacheTime' = cacheTime
  /\ written' = [written EXCEPT ![e] = [set |-> TRUE, at |-> clock]]
  /\ served' = [served EXCEPT ![e] = [set |-> TRUE, at |-> clock, body |-> body]]

\* xCache = payload; xCacheTime = Date.now(); res.json(payload)
Store(e, payload, body, clock) ==
  /\ cache' = [cache EXCEPT ![e] = Holding(payload)]
  /\ cacheTime' = [cacheTime EXCEPT ![e] = clock]
  /\ written' = [written EXCEPT ![e] = [set |-> TRUE, at |-> clock]]
  /\ served' = [served EXCEPT ![e] = [set |-> TRUE, at |-> clock, body |-> body]]

(***************************************************************************)
(* /api/indices, /api/forex, /api/crypto, /api/commodities                 *)
(***************************************************************************)
\* the provider call of one iteration
QuoteCall(e, entry, kind) ==
  IF e = "commodities" THEN EodRealTime(entry.symbol, kind)
  ELSE YahooChart(entry.symbol, "1d", "5d", kind)

\* a faulty iteration: the series is only required to hold one sample, so that
\* closes.at(-2) is undefined and a record is pushed for a series of length 1
YahooIterationWeakCheck(e, entry, reply) ==
  LET closes == SelectNumbers(reply.closes)
      padded == IF Len(closes) = 1 THEN <<NaN>> \o closes ELSE closes
  IN IF ~reply.ok THEN [push |-> <<>>, sleep |-> TRUE]
     ELSE IF ~reply.data THEN [push |-> <<>>, sleep |-> FALSE]
     ELSE IF Len(closes) < 1 THEN [push |-> <<>>, sleep |-> FALSE]
     ELSE [push |-> <<CASE e = "indices" -> IndexRecord(entry.name, entry.symbol, padded)
                        [] e = "forex" -> ForexRecord(entry.name, padded)
                        [] OTHER -> CryptoRecord(entry.name, entry.symbol, padded)>>,
           sleep |-> TRUE]

\* one iteration of the loop of a Yahoo-backed endpoint, from the reply on:
\* push is what it appends to results, sleep whether it reaches the sleep
YahooIteration(e, entry, reply) ==
  LET closes == SelectNumbers(reply.closes)
  IN IF ~reply.ok THEN [push |-> <<>>, sleep |-> TRUE]
     ELSE IF ~reply.data THEN [push |-> <<>>, sleep |-> FALSE]
     ELSE IF Len(closes) < 2 THEN [push |-> <<>>, sleep |-> FALSE]
     ELSE [push |-> <<CASE e = "indices" -> IndexRecord(entry.name, entry.symbol, closes)
                        [] e = "forex" -> ForexRecord(entry.name, closes)
                        [] OTHER -> CryptoRecord(entry.name, entry.symbol, closes)>>,
           sleep |-> TRUE]

\* one iteration of the loop of /api/commodities, from the reply on
CommodityIteration(entry, reply) ==
  LET close == ParseFloat(reply.close)
      previousClose == ParseFloat(reply.previousClose)
      pct == PctChange(close, previousClose)
  IN IF ~reply.ok THEN [push |-> <<>>, sleep |-> TRUE]
     ELSE IF ~reply.data THEN [push |-> <<>>, sleep |-> FALSE]
     ELSE IF close.k = "nan" \/ previousClose.k = "nan" \/ previousClose = Fin(0)
       THEN [push |-> <<>>, sleep |-> FALSE]
     ELSE IF pct.k = "nan" THEN [push |-> <<>>, sleep |-> FALSE]
     ELSE [push |-> <<CommodityRecord(entry.name, close, pct)>>, sleep |-> TRUE]

QuoteIteration(e, entry, reply) ==
  IF e = "commodities" THEN CommodityIteration(entry, reply)
  ELSE YahooIteration(e, entry, reply)

\* what the handler caches and sends once its loop has ended
QuotePayload(e, results) ==
  IF e = "commodities" THEN SortByAbsChange(results) ELSE results

\* a faulty loop: a call that threw is made once more before the loop goes on
QuoteContinueRetrying(r, q, clock) ==
  LET e == q.ep
      payload == QuotePayload(e, q.results)
  IN IF q.log[Len(q.log)] = "throw" /\ q.calls = q.i
       THEN /\ req' = [req EXCEPT ![r] = [q EXCEPT !.pc = "http", !.calls = @ + 1]]
            /\ UNCHANGED <<cache, cacheTime, written, served>>
       ELSE IF q.i < Len(SymbolsOf(e))
         THEN /\ req' = [req EXCEPT ![r] = [q EXCEPT !.pc = "http", !.i = @ + 1,
                                                     !.calls = @ + 1]]
              /\ UNCHANGED <<cache, cacheTime, written, served>>
         ELSE /\ req' = [req EXCEPT ![r] = [q EXCEPT !.pc = "done", !.status = 200,
                                                     !.body = JsonList(payload)]]
              /\ Store(e, payload, JsonList(payload), clock)

\* the loop goes on with its next symbol, whose call it issues, or ends:
\* the slot is written and the response sent
QuoteContinue(r, q, clock) ==
  LET e == q.ep
      payload == QuotePayload(e, q.results)
  IN IF q.i < Len(SymbolsOf(e))
       THEN /\ req' = [req EXCEPT ![r] = [q EXCEPT !.pc = "http", !.i = @ + 1,
                                                   !.calls = @ + 1]]
            /\ UNCHANGED <<cache, cacheTime, written, served>>
       ELSE /\ req' = [req EXCEPT ![r] = [q EXCEPT !.pc = "done", !.status = 200,
                                                   !.body = JsonList(payload)]]
            /\ Store(e, payload, JsonList(payload), clock)

\* app.get(<quote endpoint>): the cache check, and on a miss the first call
QuoteRequest(r, e) ==
  /\ e \in QuoteEndpoints
  /\ NextToArrive(r)
  /\ IF IsFresh(cache[e], cacheTime[e], now, TTL(e))
       THEN req' = [req EXCEPT ![r] =
                      AnswerFromCache(Arrived(@, e), JsonList(cache[e].value))]
       ELSE req' = [req EXCEPT ![r] =
                      [Arrived(@, e) EXCEPT !.pc = "http", !.i = 1, !.calls = 1]]
  /\ UNCHANGED <<now, cache, cacheTime, provider, changes, written, served, aggIn, aggOut, strength, fmt, cell, sa, EODHD_KEY>>

\* the awaited http.get of a quote loop settles
QuoteReply(r, kind) ==
  /\ req[r].pc = "http"
  /\ req[r].ep \in QuoteEndpoints
  /\ Answers(kind)
  /\ LET q == req[r]
         e == q.ep
         entry == SymbolsOf(e)[q.i]
         it == QuoteIteration(e, entry, QuoteCall(e, entry, kind))
         q2 == [q EXCEPT !.results = @ \o it.push, !.log = Append(@, kind)]
     IN IF it.sleep
          THEN /\ req' = [req EXCEPT ![r] = [q2 EXCEPT !.pc = "sleep",
                                                      !.delay = SleepOf(e)]]
               /\ UNCHANGED <<cache, cacheTime, written, served>>
          ELSE QuoteContinue(r, q2, now)
  /\ UNCHANGED <<now, aggIn, aggOut, strength, fmt, cell, sa, EODHD_KEY>>

\* the awaited sleep of a quote loop ends
QuoteWake(r) ==
  /\ req[r].pc = "sleep"
  /\ req[r].ep \in QuoteEndpoints
  /\ now' = now + req[r].delay
  /\ QuoteContinue(r, req[r], now')
  /\ UNCHANGED <<provider, changes, aggIn, aggOut, strength, fmt, cell, sa, EODHD_KEY>>

(***************************************************************************)
(* Time passes, up to the next instant at which a cache entry ages out     *)
(***************************************************************************)
Tick ==
  /\ \E e \in Endpoints, d \in {0, 1} :
       /\ cache[e].set
       /\ cacheTime[e] + TTL(e) - d > now
       /\ now' = cacheTime[e] + TTL(e) - d
  /\ UNCHANGED <<cache, cacheTime, req, provider, changes, written, served, aggIn, aggOut, strength, fmt, cell, sa, EODHD_KEY>>

(***************************************************************************)
(* The mover fetchers                                                      *)
(***************************************************************************)
\* fetchEodTopStocks(6) and slice(0, 10)
StockLimit == 6
MoversLimit == 10

Sides == <<"most_gainer_stocks", "most_loser_stocks">>

\* fetchSide: the items of one screener side
fetchSide(reply) ==
  IF ~reply.ok THEN <<>>
  ELSE IF ~reply.isArray THEN <<>>
  ELSE [n \in 1..Len(reply.items) |->
          LET it == reply.items[n]
          IN formatMover(it.name, it.code,
               ParseFloat(IF it.change_percent = Null THEN Fin(0) ELSE it.change_percent),
               "Stock")]

RECURSIVE ForexMoverItems(_, _)
\* FOREX_PAIRS.map(..).filter(Boolean), from the n-th pair on
ForexMoverItems(reply, n) ==
  IF n > Len(FOREX_PAIRS) THEN <<>>
  ELSE LET pair == FOREX_PAIRS[n]
           rest == ForexMoverItems(reply, n + 1)
       IN IF pair \notin reply.has THEN rest
          ELSE IF reply.percent_change[pair] = Null THEN rest
          ELSE <<formatMover(pair, pair, ParseFloat(reply.percent_change[pair]), "Forex")>>
                 \o rest

\* fetchForexMovers, from the reply on
fetchForexMovers(reply) == IF ~reply.ok THEN <<>> ELSE ForexMoverItems(reply, 1)

\* one iteration of a Yahoo-backed mover loop (crypto movers, the index loop of
\* /api/all-movers), from the reply on
YahooMoverIteration(entry, reply, type) ==
  LET closes == SelectNumbers(reply.closes)
  IN IF ~reply.ok THEN [push |-> <<>>, sleep |-> TRUE]
     ELSE IF ~reply.data THEN [push |-> <<>>, sleep |-> FALSE]
     ELSE IF Len(closes) < 2 THEN [push |-> <<>>, sleep |-> FALSE]
     ELSE [push |-> <<formatMover(entry.name, entry.symbol,
                        PctChange(AtEnd(closes, 1), AtEnd(closes, 2)), type)>>,
           sleep |-> TRUE]

\* one iteration of the loop of fetchCommodityMovers, from the reply on
CommodityMoverIteration(entry, reply) ==
  LET close == ParseFloat(reply.close)
      previousClose == ParseFloat(reply.previousClose)
      pct == PctChange(close, previousClose)
  IN IF ~reply.ok THEN [push |-> <<>>, sleep |-> TRUE]
     ELSE IF ~reply.data THEN [push |-> <<>>, sleep |-> FALSE]
     ELSE IF close.k = "nan" \/ previousClose.k = "nan" \/ previousClose = Fin(0)
       THEN [push |-> <<>>, sleep |-> FALSE]
     ELSE IF pct.k = "nan" THEN [push |-> <<>>, sleep |-> FALSE]
     ELSE [push |-> <<formatMover(entry.name, entry.name, pct, "Commodity")>>,
           sleep |-> TRUE]

\* the symbols a looping mover fetcher iterates, and its delay
FetcherSymbols(f) == IF f = "crypto" THEN CryptoMoverSymbols ELSE EODHD_COMMODITIES
FetcherSleep(f) == IF f = "crypto" THEN 150 ELSE 200

\* a faulty loop: the symbol after the next one is called when there is one
FetcherContinueSkipping(f, fs) ==
  IF fs.i + 1 < Len(FetcherSymbols(f)) THEN [fs EXCEPT !.pc = "http", !.i = @ + 2]
  ELSE IF fs.i < Len(FetcherSymbols(f)) THEN [fs EXCEPT !.pc = "http", !.i = @ + 1]
  ELSE [fs EXCEPT !.pc = "done"]

\* a looping fetcher goes on with its next symbol, whose call it issues, or returns
FetcherContinue(f, fs) ==
  IF fs.i < Len(FetcherSymbols(f)) THEN [fs EXCEPT !.pc = "http", !.i = @ + 1]
  ELSE [fs EXCEPT !.pc = "done"]

\* a mover fetcher, from the reply to its call in flight up to its next await
FetcherReply(f, fs0, kind) ==
  LET fs == [fs0 EXCEPT !.log = Append(@, kind)]
  IN CASE f = "stocks" ->
            LET items == fs.items \o fetchSide(EodTop(Sides[fs.i], StockLimit, kind))
            IN IF fs.i < Len(Sides)
                 THEN [fs EXCEPT !.items = items, !.i = @ + 1]
                 ELSE [fs EXCEPT !.items = items, !.pc = "done"]
       [] f = "forex" ->
            [fs EXCEPT !.items = fetchForexMovers(TwelveQuote(kind)), !.pc = "done"]
       [] OTHER ->
            LET entry == FetcherSymbols(f)[fs.i]
                it == IF f = "crypto"
                        THEN YahooMoverIteration(entry,
                               YahooChart(entry.symbol, "1d", "5d", kind), "Crypto")
                        ELSE CommodityMoverIteration(entry, EodRealTime(entry.symbol, kind))
                fs2 == [fs EXCEPT !.items = @ \o it.push]
            IN IF it.sleep
                 THEN [fs2 EXCEPT !.pc = "sleep", !.delay = FetcherSleep(f)]
                 ELSE FetcherContinue(f, fs2)

\* the number of provider calls a fetcher step issues
Issued(before, after) ==
  IF after.pc = "http" /\ (before.pc # "http" \/ before.i # after.i) THEN 1 ELSE 0

(***************************************************************************)
(* /api/all-movers                                                         *)
(***************************************************************************)
\* what Promise.allSettled gives for a fetcher: the model's fetchers catch every
\* error of their own, so each one fulfils with the items it returns
Settled(fs) == [status |-> "fulfilled", value |-> fs.items]

\* a faulty join: what the commodity fetcher returned is not spread into the list
JoinedWithoutCommodities(fet) ==
  Settled(fet["stocks"]).value \o Settled(fet["crypto"]).value
    \o Settled(fet["forex"]).value

\* the combined list after the join: a fetcher that did not fulfil adds nothing
Joined(fet) ==
  LET part(f) ==
        IF Settled(fet[f]).status = "fulfilled" THEN Settled(fet[f]).value ELSE <<>>
  IN part("stocks") \o part("crypto") \o part("forex") \o part("commodities")

RECURSIVE Dedup(_, _)
\* combined.forEach(item => ..map.set(item.symbol, item)..), then [...map.values()]:
\* map is the list of the map's values in insertion order
Dedup(combined, map) ==
  IF combined = <<>> THEN map
  ELSE LET item == Head(combined)
           at == {n \in 1..Len(map) : map[n].symbol = item.symbol}
       IN IF at = {} THEN Dedup(Tail(combined), Append(map, item))
          ELSE LET n == CHOOSE m \in at : TRUE
               IN IF Gt(Abs(item.rawChange), Abs(map[n].rawChange))
                    THEN Dedup(Tail(combined), [map EXCEPT ![n] = item])
                    ELSE Dedup(Tail(combined), map)

\* a faulty ranking: the sorted records are not cut to the first ten
RankUncut(combined) ==
  LET map == Dedup(combined, <<>>)
  IN [set |-> TRUE, map |-> map, sorted |-> SortByAbsChange(map)]

\* the deduplicated records, and the response: sorted and cut to the first ten
Rank(combined) ==
  LET map == Dedup(combined, <<>>)
  IN [set |-> TRUE, map |-> map, sorted |-> Slice(SortByAbsChange(map), MoversLimit)]

\* the index loop goes on with its next symbol, or ends: ranking, cache write, response
MoversContinue(r, q, clock) ==
  LET sorted == Rank(q.results).sorted
  IN IF q.i < Len(INDEX_SYMBOLS)
       THEN /\ req' = [req EXCEPT ![r] = [q EXCEPT !.pc = "http", !.i = @ + 1,
                                                   !.calls = @ + 1]]
            /\ UNCHANGED <<cache, cacheTime, written, served>>
       ELSE /\ req' = [req EXCEPT ![r] = [q EXCEPT !.pc = "done", !.status = 200,
                                                   !.body = JsonList(sorted)]]
            /\ Store("all-movers", sorted, JsonList(sorted), clock)

\* a faulty join: the handler goes on as soon as three of the four have settled
MoversJoinEarly(r, q, f, fs) ==
  LET fet == [q.fet EXCEPT ![f] = fs]
      q2 == [q EXCEPT !.fet = fet, !.calls = @ + Issued(q.fet[f], fs)]
  IN IF \E g \in FetcherNames : \A h \in FetcherNames \ {g} : fet[h].pc = "done"
       THEN req' = [req EXCEPT ![r] = [q2 EXCEPT !.pc = "http", !.i = 1, !.calls = @ + 1,
                                                  !.joined = Joined(fet),
                                                  !.results = Joined(fet)]]
       ELSE req' = [req EXCEPT ![r] = q2]

\* a fetcher has moved: when all four have settled the handler goes on behind the
\* join, combines what they returned and issues the first index call
MoversJoin(r, q, f, fs) ==
  LET fet == [q.fet EXCEPT ![f] = fs]
      q2 == [q EXCEPT !.fet = fet, !.calls = @ + Issued(q.fet[f], fs)]
  IN IF \A g \in FetcherNames : fet[g].pc = "done"
       THEN req' = [req EXCEPT ![r] = [q2 EXCEPT !.pc = "http", !.i = 1, !.calls = @ + 1,
                                                  !.joined = Joined(fet),
                                                  !.results = Joined(fet)]]
       ELSE req' = [req EXCEPT ![r] = q2]

\* a mover fetcher is called and runs up to its first await, the http.get of its
\* first call; fetchEodTopStocks returns { items: [] } at once without the key
StartFetcher(f) ==
  IF f = "stocks" /\ ~EODHD_KEY
    THEN [NoFetcher EXCEPT !.pc = "done"]
    ELSE [NoFetcher EXCEPT !.pc = "http", !.i = 1]

\* app.get("/api/all-movers"): the cache check, and on a miss the four fetchers
\* are called one after the other in the order of the array handed to
\* Promise.allSettled, each running up to its first await
MoversRequest(r) ==
  /\ NextToArrive(r)
  /\ LET e == "all-movers"
     IN IF IsFresh(cache[e], cacheTime[e], now, TTL(e))
          THEN req' = [req EXCEPT ![r] =
                         AnswerFromCache(Arrived(@, e), JsonList(cache[e].value))]
          ELSE LET fet == [f \in FetcherNames |-> StartFetcher(f)]
               IN req' = [req EXCEPT ![r] =
                            [Arrived(@, e) EXCEPT
                               !.pc = "join",
                               !.calls = Cardinality({f \in FetcherNames :
                                                        fet[f].pc = "http"}),
                               !.fet = fet]]
  /\ UNCHANGED <<now, cache, cacheTime, provider, changes, written, served, aggIn, aggOut, strength, fmt, cell, sa, EODHD_KEY>>

\* the awaited http.get of a mover fetcher settles
FetcherReplies(r, f, kind) ==
  /\ req[r].pc = "join"
  /\ req[r].fet[f].pc = "http"
  /\ Answers(kind)
  /\ MoversJoin(r, req[r], f, FetcherReply(f, req[r].fet[f], kind))
  /\ UNCHANGED <<now, cache, cacheTime, written, served, aggIn, aggOut, strength, fmt, cell, sa, EODHD_KEY>>

\* a faulty wait: a call of a mover fetcher is given up after ten seconds, and
\* the fetcher goes on as if the call had not been made
FetcherWakesOrTimesOut(r, f) ==
  /\ req[r].pc = "join"
  /\ req[r].fet[f].pc \in {"sleep", "http"}
  /\ now' = now + (IF req[r].fet[f].pc = "sleep" THEN req[r].fet[f].delay ELSE 10000)
  /\ MoversJoin(r, req[r], f, FetcherContinue(f, req[r].fet[f]))
  /\ UNCHANGED <<cache, cacheTime, provider, changes, written, served, aggIn, aggOut, strength, fmt, cell, sa, EODHD_KEY>>

\* the awaited sleep of a mover fetcher ends
FetcherWakes(r, f) ==
  /\ req[r].pc = "join"
  /\ req[r].fet[f].pc = "sleep"
  /\ now' = now + req[r].fet[f].delay
  /\ MoversJoin(r, req[r], f, FetcherContinue(f, req[r].fet[f]))
  /\ UNCHANGED <<cache, cacheTime, provider, changes, written, served, aggIn, aggOut, strength, fmt, cell, sa, EODHD_KEY>>

\* the awaited http.get of the index loop settles
MoversIndexReply(r, kind) ==
  /\ req[r].pc = "http"
  /\ req[r].ep = "all-movers"
  /\ Answers(kind)
  /\ LET q == req[r]
         entry == INDEX_SYMBOLS[q.i]
         it == YahooMoverIteration(entry, YahooChart(entry.symbol, "1d", "5d", kind),
                                   "Index")
         q2 == [q EXCEPT !.results = @ \o it.push, !.log = Append(@, kind)]
     IN IF it.sleep
          THEN /\ req' = [req EXCEPT ![r] = [q2 EXCEPT !.pc = "sleep", !.delay = 120]]
               /\ UNCHANGED <<cache, cacheTime, written, served>>
          ELSE MoversContinue(r, q2, now)
  /\ UNCHANGED <<now, aggIn, aggOut, strength, fmt, cell, sa, EODHD_KEY>>

\* the awaited sleep of the index loop ends
MoversIndexWake(r) ==
  /\ req[r].pc = "sleep"
  /\ req[r].ep = "all-movers"
  /\ now' = now + req[r].delay
  /\ MoversContinue(r, req[r], now')
  /\ UNCHANGED <<provider, changes, aggIn, aggOut, strength, fmt, cell, sa, EODHD_KEY>>

(***************************************************************************)
(* /api/forex-heatmap and /api/crypto-heatmap                              *)
(***************************************************************************)
\* a faulty choice: the deeper sample is taken only when the series is longer
\* than the threshold
CompareDepthBeyond(tf, n) ==
  IF tf = "1w" /\ n > 8 THEN 8
  ELSE IF tf = "4h" /\ n > 17 THEN 17
  ELSE IF tf = "1h" /\ n > 13 THEN 13
  ELSE 2

\* how far from the end the comparison sample lies: -compareIndex
CompareDepth(tf, n) ==
  IF tf = "1w" /\ n >= 8 THEN 8
  ELSE IF tf = "4h" /\ n >= 17 THEN 17
  ELSE IF tf = "1h" /\ n >= 13 THEN 13
  ELSE 2

\* the cell of one (symbol, timeframe): pct, from the reply on
HeatmapCell(tf, reply) ==
  LET closes == SelectNumbers(reply.closes)
      depth == CompareDepth(tf, Len(closes))
  IN IF ~reply.ok THEN Null
     ELSE IF ~reply.data THEN Null
     ELSE IF Len(closes) < 2 THEN Null
     ELSE IF depth > Len(closes) THEN Null
     ELSE PctChange(AtEnd(closes, 1), AtEnd(closes, depth))

\* a faulty variant of the assignment: a cell that was not computed is left out
SetCellIfComputed(row, tf, pct) == IF pct = Null THEN row ELSE row @@ (tf :> pct)

\* tfResults[tf] = pct
SetCell(row, tf, pct) == row @@ (tf :> pct)

\* res.json of a heatmap: JSON has no NaN and no Infinity
JsonGrid(grid) ==
  [label \in DOMAIN grid |-> [tf \in DOMAIN grid[label] |-> JsonNum(grid[label][tf])]]

\* app.get(<heatmap endpoint>): the cache check, and on a miss the first call
HeatmapRequest(r, e) ==
  /\ e \in HeatmapEndpoints
  /\ NextToArrive(r)
  /\ IF IsFresh(cache[e], cacheTime[e], now, TTL(e))
       THEN req' = [req EXCEPT ![r] =
                      AnswerFromCache(Arrived(@, e), JsonGrid(cache[e].value))]
       ELSE req' = [req EXCEPT ![r] =
                      [Arrived(@, e) EXCEPT !.pc = "http", !.i = 1, !.j = 1, !.calls = 1]]
  /\ UNCHANGED <<now, cache, cacheTime, provider, changes, written, served, aggIn, aggOut, strength, fmt, cell, sa, EODHD_KEY>>

\* a faulty pacing: no delay behind a cell that could not be computed
CellPauseIfComputed(pct) == IF pct = Null THEN 0 ELSE 100

\* await sleep(100), behind the try/catch of the cell
CellPause(pct) == 100

\* the awaited http.get of a heatmap settles: the cell is set, the sleep starts
HeatmapReply(r, kind) ==
  /\ req[r].pc = "http"
  /\ req[r].ep \in HeatmapEndpoints
  /\ Answers(kind)
  /\ LET q == req[r]
         entry == SymbolsOf(q.ep)[q.i]
         frame == Timeframes[q.j]
         pct == HeatmapCell(frame.tf,
                  YahooChart(entry.symbol, frame.interval, frame.range, kind))
     IN req' = [req EXCEPT ![r] =
                  [q EXCEPT !.pc = "sleep", !.delay = CellPause(pct),
                            !.tfResults = SetCell(@, frame.tf, pct),
                            !.log = Append(@, kind)]]
  /\ UNCHANGED <<now, cache, cacheTime, written, served, aggIn, aggOut, strength, fmt, cell, sa, EODHD_KEY>>

\* the awaited sleep of a heatmap ends: the next timeframe, or the row is set and
\* the next symbol starts, or the slot is written and the response sent
HeatmapWake(r) ==
  /\ req[r].pc = "sleep"
  /\ req[r].ep \in HeatmapEndpoints
  /\ now' = now + req[r].delay
  /\ LET q == req[r]
         e == q.ep
         results == q.results @@ (SymbolsOf(e)[q.i].name :> q.tfResults)
     IN IF q.j < Len(Timeframes)
          THEN /\ req' = [req EXCEPT ![r] = [q EXCEPT !.pc = "http", !.j = @ + 1,
                                                      !.calls = @ + 1]]
               /\ UNCHANGED <<cache, cacheTime, written, served>>
          ELSE IF q.i < Len(SymbolsOf(e))
            THEN /\ req' = [req EXCEPT ![r] =
                              [q EXCEPT !.pc = "http", !.i = @ + 1, !.j = 1,
                                        !.calls = @ + 1, !.results = results,
                                        !.tfResults = <<>>]]
                 /\ UNCHANGED <<cache, cacheTime, written, served>>
            ELSE /\ req' = [req EXCEPT ![r] =
                              [q EXCEPT !.pc = "done", !.status = 200,
                                        !.results = results, !.body = JsonGrid(results)]]
                 /\ Store(e, results, JsonGrid(results), now')
  /\ UNCHANGED <<provider, changes, aggIn, aggOut, strength, fmt, cell, sa, EODHD_KEY>>

(***************************************************************************)
(* /api/economic-calendar                                                  *)
(***************************************************************************)
Day == 24 * 60 * 60 * 1000
Hour == 60 * 60 * 1000

\* .slice(0, 100)
CalendarLimit == 100

\* the provider's event; date is the instant its date text denotes
Event(date, country, name, impact) ==
  [date |-> date, country |-> country, event |-> name, impact |-> impact,
   actual |-> Null, estimate |-> Null, previous |-> Null]

\* more events than the response may hold, a quarter of an hour apart and in no
\* order, all of major countries and none before midnight
ManyEvents(midnight) ==
  [n \in 1..(CalendarLimit + 4) |->
     Event(midnight + ((n * 37) % (CalendarLimit + 4)) * (Hour \div 4),
           IF n % 2 = 0 THEN "US" ELSE "ZA", "CPI", "High")]

\* what the calendar provider answers at the instant clock: an array of events
\* around the current day, a long array, an empty array, an error object, or a
\* failure
FmpCalendar(kind, clock) ==
  LET midnight == clock - (clock % Day)
      past == Event(midnight - Day, "US", "CPI", "High")
      minor == Event(midnight + Day, "KE", "Bank Holiday", "")
      blank == Event(midnight + Day, "", "Retail Sales", "High")
      later == Event(midnight + 2 * Day + 13 * Hour, "US", "GDP Growth Rate", "")
      sooner == Event(midnight + 10 * Hour, "ZA", "Manufacturing PMI", "Low")
  IN CASE kind = "ok" -> [ok |-> TRUE, isArray |-> TRUE,
                          events |-> <<later, past, minor, sooner, blank>>]
       [] kind = "many" -> [ok |-> TRUE, isArray |-> TRUE,
                            events |-> <<past>> \o ManyEvents(midnight) \o <<minor>>]
       [] kind = "short" -> [ok |-> TRUE, isArray |-> TRUE, events |-> <<past, minor>>]
       [] kind = "zeroprev" -> [ok |-> TRUE, isArray |-> TRUE, events |-> <<blank>>]
       [] kind = "nodata" -> [ok |-> TRUE, isArray |-> TRUE, events |-> <<>>]
       [] kind = "nan" -> [ok |-> TRUE, isArray |-> FALSE, events |-> <<>>]
       [] OTHER -> [ok |-> FALSE, isArray |-> FALSE, events |-> <<>>]

\* the names of the model's events that hold one of highKeywords / mediumKeywords
HighNames == {"GDP Growth Rate", "CPI", "Retail Sales"}
MediumNames == {"Manufacturing PMI"}

\* (event.impact || "").toLowerCase(), on the impact texts of the model
LowerImpact(impact) ==
  CASE impact = "High" -> "high"
    [] impact = "Medium" -> "medium"
    [] impact = "Low" -> "low"
    [] OTHER -> impact

Importance(event) ==
  LET impact == LowerImpact(event.impact)
  IN IF impact = "high" THEN "High"
     ELSE IF impact = "medium" THEN "Medium"
     ELSE IF impact = "low" THEN "Low"
     ELSE IF event.event \in HighNames THEN "High"
     ELSE IF event.event \in MediumNames THEN "Medium"
     ELSE "Low"

\* the countries of the model that match one of majorCountries
MajorCountries == {"US", "ZA"}

\* .filter(date and fields) .map(...) .filter(major country), in input order
CalendarEvents(events, midnight) ==
  LET Kept(event) ==
        /\ ~(event.event = "" \/ event.country = "")
        /\ event.date >= midnight
        /\ event.country \in MajorCountries
      kept == SelectSeq(events, Kept)
  IN [n \in 1..Len(kept) |->
        LET event == kept[n]
        IN [date |-> event.date \div Day,
            time |-> (event.date % Day) \div (60 * 1000),
            country |-> event.country, event |-> event.event,
            actual |-> event.actual, forecast |-> event.estimate,
            previous |-> event.previous, importance |-> Importance(event),
            currency |-> event.country, rawDateTime |-> event.date]]

\* .sort((a, b) => a.rawDateTime - b.rawDateTime); the dates are numbers, so
\* that the comparator is consistent and every stable sort, of an array of any
\* length, gives the order computed here
SortByDate(s) ==
  LET order == SortOrder([i \in 1..Len(s) |-> Fin(0 - s[i].rawDateTime)])
  IN [i \in 1..Len(s) |-> s[order[i]]]

\* app.get("/api/economic-calendar"): the cache check, and on a miss the call
CalendarRequest(r) ==
  /\ NextToArrive(r)
  /\ LET e == "economic-calendar"
     IN IF IsFresh(cache[e], cacheTime[e], now, TTL(e))
          THEN req' = [req EXCEPT ![r] = AnswerFromCache(Arrived(@, e), cache[e].value)]
          ELSE req' = [req EXCEPT ![r] = [Arrived(@, e) EXCEPT !.pc = "http", !.calls = 1]]
  /\ UNCHANGED <<now, cache, cacheTime, provider, changes, written, served, aggIn, aggOut, strength, fmt, cell, sa, EODHD_KEY>>

\* a faulty handler: the catch block that answers 500 also empties the slot
CalendarReplyResetting(r, kind) ==
  /\ req[r].pc = "http"
  /\ req[r].ep = "economic-calendar"
  /\ Answers(kind)
  /\ LET q == req[r]
         reply == FmpCalendar(kind, now)
         events == Slice(SortByDate(CalendarEvents(reply.events, now - (now % Day))),
                         CalendarLimit)
     IN IF ~reply.ok
          THEN /\ req' = [req EXCEPT ![r] =
                            [q EXCEPT !.pc = "done", !.status = 500,
                                      !.body = <<"Failed to fetch economic calendar">>,
                                      !.log = Append(@, kind)]]
               /\ cache' = [cache EXCEPT ![q.ep] = Empty]
               /\ cacheTime' = [cacheTime EXCEPT ![q.ep] = 0]
               /\ UNCHANGED <<written, served>>
          ELSE IF ~reply.isArray \/ Len(reply.events) = 0
            THEN /\ req' = [req EXCEPT ![r] =
                              [q EXCEPT !.pc = "done", !.status = 200, !.body = <<>>,
                                        !.log = Append(@, kind)]]
                 /\ served' = [served EXCEPT ![q.ep] =
                                 [set |-> TRUE, at |-> now, body |-> <<>>]]
                 /\ UNCHANGED <<cache, cacheTime, written>>
            ELSE /\ req' = [req EXCEPT ![r] =
                              [q EXCEPT !.pc = "done", !.status = 200,
                                        !.results = events, !.body = events,
                                        !.log = Append(@, kind)]]
                 /\ Store(q.ep, events, events, now)
  /\ UNCHANGED <<now, aggIn, aggOut, strength, fmt, cell, sa, EODHD_KEY>>

\* the awaited http.get of the calendar settles: 500 when it failed, [] without
\* a cache write when the data is no array or an empty one, else the events
CalendarReply(r, kind) ==
  /\ req[r].pc = "http"
  /\ req[r].ep = "economic-calendar"
  /\ Answers(kind)
  /\ LET q == req[r]
         reply == FmpCalendar(kind, now)
         events == Slice(SortByDate(CalendarEvents(reply.events, now - (now % Day))),
                         CalendarLimit)
     IN IF ~reply.ok
          THEN /\ req' = [req EXCEPT ![r] =
                            [q EXCEPT !.pc = "done", !.status = 500,
                                      !.body = <<"Failed to fetch economic calendar">>,
                                      !.log = Append(@, kind)]]
               /\ UNCHANGED <<cache, cacheTime, written, served>>
          ELSE IF ~reply.isArray \/ Len(reply.events) = 0
            THEN /\ req' = [req EXCEPT ![r] =
                              [q EXCEPT !.pc = "done", !.status = 200, !.body = <<>>,
                                        !.log = Append(@, kind)]]
                 /\ served' = [served EXCEPT ![q.ep] =
                                 [set |-> TRUE, at |-> now, body |-> <<>>]]
                 /\ UNCHANGED <<cache, cacheTime, written>>
            ELSE /\ req' = [req EXCEPT ![r] =
                              [q EXCEPT !.pc = "done", !.status = 200,
                                        !.results = events, !.body = events,
                                        !.log = Append(@, kind)]]
                 /\ Store(q.ep, events, events, now)
  /\ UNCHANGED <<now, aggIn, aggOut, strength, fmt, cell, sa, EODHD_KEY>>

(***************************************************************************)
(* /api/sa-markets                                                         *)
(***************************************************************************)
\* the characters of the names, symbols and pairs /api/indices and /api/forex
\* return, and of the texts they are searched for
Chars(text) ==
  CASE text = "S&P 500" -> <<"S", "&", "P", " ", "5", "0", "0">>
    [] text = "NASDAQ 100" -> <<"N", "A", "S", "D", "A", "Q", " ", "1", "0", "0">>
    [] text = "Dow Jones" -> <<"D", "o", "w", " ", "J", "o", "n", "e", "s">>
    [] text = "JSE Top 40" -> <<"J", "S", "E", " ", "T", "o", "p", " ", "4", "0">>
    [] text = "^GSPC" -> <<"^", "G", "S", "P", "C">>
    [] text = "^NDX" -> <<"^", "N", "D", "X">>
    [] text = "^DJI" -> <<"^", "D", "J", "I">>
    [] text = "^J200.JO" -> <<"^", "J", "2", "0", "0", ".", "J", "O">>
    [] text = "EUR/USD" -> <<"E", "U", "R", "/", "U", "S", "D">>
    [] text = "GBP/USD" -> <<"G", "B", "P", "/", "U", "S", "D">>
    [] text = "USD/JPY" -> <<"U", "S", "D", "/", "J", "P", "Y">>
    [] text = "USD/ZAR" -> <<"U", "S", "D", "/", "Z", "A", "R">>
    [] text = "EUR/ZAR" -> <<"E", "U", "R", "/", "Z", "A", "R">>
    [] text = "GBP/ZAR" -> <<"G", "B", "P", "/", "Z", "A", "R">>
    [] text = "AUD/USD" -> <<"A", "U", "D", "/", "U", "S", "D">>
    [] text = "USD/CHF" -> <<"U", "S", "D", "/", "C", "H", "F">>
    [] text = "JSE" -> <<"J", "S", "E">>
    [] text = ".JO" -> <<".", "J", "O">>
    [] text = "ZAR" -> <<"Z", "A", "R">>

\* String.prototype.includes
Includes(text, part) ==
  LET s == Chars(text)
      p == Chars(part)
  IN \E i \in 1..(Len(s) - Len(p) + 1) : SubSeq(s, i, i + Len(p) - 1) = p

\* the three endpoints /api/sa-markets asks, in the order of its awaits
SaSections == <<"indices", "forex", "commodities">>

RECURSIVE ResultsUpTo(_, _, _)
\* the results of a fetch cycle of /api/<e> after its first n iterations, when
\* the provider calls at the positions `answered` return data and the others fail
ResultsUpTo(e, answered, n) ==
  IF n = 0 THEN <<>>
  ELSE ResultsUpTo(e, answered, n - 1) \o
       QuoteIteration(e, SymbolsOf(e)[n],
                      QuoteCall(e, SymbolsOf(e)[n],
                                IF n \in answered THEN "ok" ELSE "throw")).push

\* http.get(`http://localhost:${PORT}/api/<e>`): the promise rejects (no
\* connection, or a status outside 2xx), or resolves with the array the handler
\* of /api/<e> sends
InternalReplies(e) ==
  {[ok |-> FALSE, data |-> <<>>]} \cup
  {[ok |-> TRUE,
    data |-> JsonList(QuotePayload(e, ResultsUpTo(e, answered, Len(SymbolsOf(e)))))] :
     answered \in SUBSET (1..Len(SymbolsOf(e)))}

\* a faulty call: without the catch the rejection reaches the handler
Uncaught(reply) == reply

\* .catch(() => ({ data: [] }))
Caught(reply) == IF reply.ok THEN reply ELSE [ok |-> TRUE, data |-> <<>>]

\* allIndices.filter(idx => idx.name.includes("JSE") || idx.symbol.includes(".JO"))
jseIndices(allIndices) ==
  SelectSeq(allIndices,
            LAMBDA idx : IF Includes(idx.name, "JSE") THEN TRUE
                         ELSE Includes(idx.symbol, ".JO"))

\* allForex.filter(fx => fx.pair.includes("ZAR"))
zarForex(allForex) == SelectSeq(allForex, LAMBDA fx : Includes(fx.pair, "ZAR"))

\* usdZarPair ? usdZarPair.price : 18.75
usdZarRate(forex) ==
  LET usdZarPair == SelectSeq(forex, LAMBDA fx : fx.pair = "USD/ZAR")
  IN IF usdZarPair = <<>> THEN Fin(18750) ELSE usdZarPair[1].price

RECURSIVE Thousands(_)
\* .replace(/\B(?=(\d{3})+(?!\d))/g, ","): the digits in groups of three
Thousands(n) ==
  IF n < 1000 THEN <<n>> ELSE Append(Thousands(n \div 1000), n % 1000)

\* `R ${(parseFloat(comm.price) * usdZarRate).toFixed(0).replace(...)}`; the
\* price texts of /api/commodities hold two decimals and the prices of
\* /api/forex are finite numbers (CommodityIteration, YahooIteration), any
\* other operand gives the text NaN here
priceZAR(price, rate) ==
  IF price.txt = "digits" /\ rate.k = "fin"
    THEN LET size == IF rate.v < 0 THEN -rate.v ELSE rate.v
             \* the product in hundredths and in hundred-thousandths, by the
             \* whole and the fractional part of the rate
             whole == price.cents * (size \div Scale)
             part == price.cents * (size % Scale)
         IN [prefix |-> "R ", txt |-> "digits",
             neg |-> IF price.neg THEN rate.v > 0 ELSE rate.v < 0,
             groups |-> Thousands((whole + (part + 50 * Scale) \div Scale) \div 100)]
    ELSE [prefix |-> "R ", txt |-> "NaN", neg |-> FALSE, groups |-> <<>>]

\* allCommodities.map(comm => ({ name, priceZAR, change, rawChange }))
commoditiesInZAR(allCommodities, rate) ==
  [i \in 1..Len(allCommodities) |->
     [name |-> allCommodities[i].name,
      priceZAR |-> priceZAR(allCommodities[i].price, rate),
      change |-> allCommodities[i].change,
      rawChange |-> allCommodities[i].rawChange]]

nextEvent == [name |-> "SARB Interest Rate Decision", date |-> "March 27, 2026"]

\* the catch block of the handler
SaFailed(s, reply) ==
  [s EXCEPT !.pc = "done", !.status = 500, !.replies = Append(@, reply.ok)]

\* GET /api/sa-markets, up to the first await: /api/indices is asked
SaRequest ==
  /\ sa.pc = "idle"
  /\ sa' = [sa EXCEPT !.pc = "indices", !.calls = <<"indices">>]
  /\ UNCHANGED <<now, cache, cacheTime, req, provider, changes, written, served,
                 aggIn, aggOut, strength, fmt, cell, EODHD_KEY>>

\* /api/indices has answered or failed: the JSE indices are kept and /api/forex
\* is asked
SaIndicesReply(reply) ==
  /\ sa.pc = "indices"
  /\ LET indicesResp == Caught(reply)
     IN sa' = IF ~indicesResp.ok THEN SaFailed(sa, reply)
              ELSE [sa EXCEPT !.pc = "forex",
                              !.calls = Append(@, "forex"),
                              !.replies = Append(@, reply.ok),
                              !.allIndices = indicesResp.data,
                              !.jseIndices = jseIndices(indicesResp.data)]
  /\ UNCHANGED <<now, cache, cacheTime, req, provider, changes, written, served,
                 aggIn, aggOut, strength, fmt, cell, EODHD_KEY>>

\* /api/forex has answered or failed: the ZAR pairs are kept and
\* /api/commodities is asked
SaForexReply(reply) ==
  /\ sa.pc = "forex"
  /\ LET forexResp == Caught(reply)
     IN sa' = IF ~forexResp.ok THEN SaFailed(sa, reply)
              ELSE [sa EXCEPT !.pc = "commodities",
                              !.calls = Append(@, "commodities"),
                              !.replies = Append(@, reply.ok),
                              !.allForex = forexResp.data,
                              !.zarForex = zarForex(forexResp.data)]
  /\ UNCHANGED <<now, cache, cacheTime, req, provider, changes, written, served,
                 aggIn, aggOut, strength, fmt, cell, EODHD_KEY>>

\* /api/commodities has answered or failed: the prices are turned into rand
\* and the response is sent
SaCommoditiesReply(reply) ==
  /\ sa.pc = "commodities"
  /\ LET commoditiesResp == Caught(reply)
     IN sa' = IF ~commoditiesResp.ok THEN SaFailed(sa, reply)
              ELSE [sa EXCEPT !.pc = "done", !.status = 200,
                              !.replies = Append(@, reply.ok),
                              !.allCommodities = commoditiesResp.data,
                              !.body =
                                [indices |-> sa.jseIndices,
                                 forex |-> sa.zarForex,
                                 commodities |->
                                   commoditiesInZAR(commoditiesResp.data,
                                                    usdZarRate(sa.zarForex)),
                                 nextEvent |-> nextEvent]]
  /\ UNCHANGED <<now, cache, cacheTime, req, provider, changes, written, served,
                 aggIn, aggOut, strength, fmt, cell, EODHD_KEY>>

(***************************************************************************)
(* The providers between two requests                                      *)
(***************************************************************************)
\* the providers start to answer in another way
ProviderTurns(kind) ==
  /\ kind # provider
  /\ Answers(kind)
  /\ UNCHANGED <<now, cache, cacheTime, req, written, served, aggIn, aggOut, strength, fmt, cell, sa, EODHD_KEY>>

(***************************************************************************)
(* The ranking of /api/all-movers on its own: dedup, sort and cut applied  *)
(* to a combined list                                                      *)
(***************************************************************************)
Mover(symbol, pct) == formatMover(symbol, symbol, pct, "Stock")

\* the raw percents of the records drawn freely: two of one magnitude, a
\* smaller one, and the non-finite ones the fetchers can produce
FreeChanges == {Fin(2000), Fin(-5000), Fin(5000), NaN, PInf}
FreeSymbols == {"AAPL", "BTC-USD"}
FreeRecords == {Mover(symbol, pct) : symbol \in FreeSymbols, pct \in FreeChanges}

\* k records of k further symbols, of distinct magnitudes and mixed signs
FillerSymbols ==
  <<"ETH-USD", "XRP-USD", "SOL-USD", "ADA-USD", "GBP/USD", "USD/JPY", "USD/ZAR",
    "Gold", "Silver", "Platinum", "Crude Oil", "^GSPC", "^NDX">>
Filler(k) ==
  [n \in 1..k |-> Mover(FillerSymbols[n], Fin((IF n % 2 = 0 THEN 700 ELSE -700) * n))]
FillerSizes == {0, 9, 13}

\* the combined lists: up to MaxLen free records before or behind a filler
CombinedLists ==
  LET free == UNION {[1..n -> FreeRecords] : n \in 0..MaxLen}
  IN {f \o Filler(k) : f \in free, k \in FillerSizes}
       \cup {Filler(k) \o f : f \in free, k \in FillerSizes}

InitAgg ==
  /\ now = 0
  /\ cache = [e \in Endpoints |-> Empty]
  /\ cacheTime = [e \in Endpoints |-> 0]
  /\ req = [r \in ReqIds |-> NoRequest]
  /\ provider = "ok"
  /\ changes = 0
  /\ written = [e \in Endpoints |-> [set |-> FALSE, at |-> 0]]
  /\ served = [e \in Endpoints |-> [set |-> FALSE, at |-> 0, body |-> <<>>]]
  /\ aggIn \in CombinedLists
  /\ aggOut = [set |-> FALSE, map |-> <<>>, sorted |-> <<>>]
  /\ strength = NoStrength
  /\ fmt = NoFmt
  /\ cell = NoCell
  /\ sa = NoSa
  /\ EODHD_KEY = TRUE

\* lines 612-625 applied to the combined list
Aggregate ==
  /\ ~aggOut.set
  /\ aggOut' = Rank(aggIn)
  /\ UNCHANGED <<now, cache, cacheTime, req, provider, changes, written, served, aggIn, strength, fmt, cell, sa, EODHD_KEY>>

(***************************************************************************)
(* /api/forex-strength                                                     *)
(***************************************************************************)
\* a + b on numbers
Add(a, b) ==
  IF a.k = "nan" \/ b.k = "nan" THEN NaN
  ELSE IF a.k = "inf" /\ b.k = "inf" THEN (IF a.v = b.v THEN a ELSE NaN)
  ELSE IF a.k = "inf" THEN a
  ELSE IF b.k = "inf" THEN b
  ELSE Fin(a.v + b.v)

\* parseFloat of a display string made by PercentText: the sign and the two
\* decimals are read back, the "%" is ignored; "+Infinity%" is Infinity and
\* "NaN%" is NaN
ParseFloatText(text) ==
  CASE text.num.txt = "digits" ->
         Fin((IF text.num.neg THEN -1 ELSE 1) * text.num.cents * (Scale \div 100))
    [] text.num.txt = "Infinity" -> (IF text.num.neg THEN NInf ELSE PInf)
    [] text.num.txt = "exponent" -> (IF text.num.neg THEN Big(-1) ELSE Big(1))
    [] OTHER -> NaN

\* the keys pairCount and strength are created with
Currencies == <<"USD", "EUR", "GBP", "JPY", "AUD", "CHF", "ZAR">>
CurrencyCodes == {Currencies[n] : n \in 1..Len(Currencies)}

\* item.pair.split("/") on the pairs /api/forex returns
SplitPair(pair) ==
  CASE pair = "EUR/USD" -> <<"EUR", "USD">>
    [] pair = "GBP/USD" -> <<"GBP", "USD">>
    [] pair = "USD/JPY" -> <<"USD", "JPY">>
    [] pair = "USD/ZAR" -> <<"USD", "ZAR">>
    [] pair = "EUR/ZAR" -> <<"EUR", "ZAR">>
    [] pair = "GBP/ZAR" -> <<"GBP", "ZAR">>
    [] pair = "AUD/USD" -> <<"AUD", "USD">>
    [] pair = "USD/CHF" -> <<"USD", "CHF">>

\* the two tallies before the loop
NoTally ==
  [pairCount |-> [c \in CurrencyCodes |-> 0], strength |-> [c \in CurrencyCodes |-> Fin(0)]]

\* a faulty loop body: the percent is added to the base currency only
TallyItemBaseOnly(tally, item) ==
  LET pct == ParseFloatText(item.change)
      base == SplitPair(item.pair)[1]
      quote == SplitPair(item.pair)[2]
      counted == [tally.pairCount EXCEPT ![base] = @ + 1, ![quote] = @ + 1]
  IN IF Gt(pct, Fin(0)) \/ Gt(Fin(0), pct)
       THEN [pairCount |-> counted,
             strength |-> [tally.strength EXCEPT ![base] = Add(@, pct)]]
       ELSE [pairCount |-> counted, strength |-> tally.strength]

\* the body of data.forEach
TallyItem(tally, item) ==
  LET pct == ParseFloatText(item.change)
      base == SplitPair(item.pair)[1]
      quote == SplitPair(item.pair)[2]
      counted == [tally.pairCount EXCEPT ![base] = @ + 1, ![quote] = @ + 1]
  IN IF Gt(pct, Fin(0)) \/ Gt(Fin(0), pct)
       THEN [pairCount |-> counted,
             strength |-> [tally.strength EXCEPT ![base] = Add(@, pct),
                                                 ![quote] = Sub(@, pct)]]
       ELSE [pairCount |-> counted, strength |-> tally.strength]

RECURSIVE Tally(_, _)
\* data.forEach(item => ...)
Tally(data, tally) ==
  IF data = <<>> THEN tally ELSE Tally(Tail(data), TallyItem(tally, Head(data)))

\* the label of strength / pairCount (0 when pairCount is 0), the quotient
\* being compared with 0.3 and -0.3 exactly
Classify(sum, count) ==
  LET limit == ((3 * Scale) \div 10) * count
  IN IF count = 0 \/ sum.k = "nan" THEN "Neutral"
     ELSE IF sum.k = "inf" THEN (IF sum.v = 1 THEN "Strong" ELSE "Weak")
     ELSE IF sum.v >= limit THEN "Strong"
     ELSE IF sum.v <= -limit THEN "Weak"
     ELSE "Neutral"

\* a faulty result: only the currencies of the returned pairs get a key
StrengthResultOfSeen(data) ==
  LET tally == Tally(data, NoTally)
  IN [c \in {d \in CurrencyCodes : tally.pairCount[d] > 0} |->
        Classify(tally.strength[c], tally.pairCount[c])]

\* result, from the reply of the internal request (data is [] when it failed)
StrengthResult(data) ==
  LET tally == Tally(data, NoTally)
  IN [c \in CurrencyCodes |-> Classify(tally.strength[c], tally.pairCount[c])]

\* the replies GET /api/forex can give: the records of the pairs whose call
\* succeeded, in the order of the table; the percents of the first four pairs
\* are drawn, the other four pairs are all answered or all missing
DrawnChanges ==
  {Fin(1000), Fin(-1000), Fin(296), Fin(-304), Fin(-1), Fin(0), PInf, NaN}
ForexEntry(n, pct) ==
  ForexRecord(YAHOO_FOREX_SYMBOLS[n].name,
              IF pct.k = "fin" THEN <<Fin(100 * Scale), Fin(100 * Scale + pct.v)>>
              ELSE IF pct.k = "inf" THEN <<Fin(0), Fin(100 * Scale)>>
              ELSE <<Fin(0), Fin(0)>>)
DrawnPairs == 3
RECURSIVE ForexLists(_)
ForexLists(n) ==
  IF n = 0 THEN {<<>>}
  ELSE LET shorter == ForexLists(n - 1)
       IN shorter \cup {list \o <<ForexEntry(n, pct)>> : list \in shorter, pct \in DrawnChanges}
RestOfPairs ==
  [n \in 1..(Len(YAHOO_FOREX_SYMBOLS) - DrawnPairs) |->
     ForexEntry(DrawnPairs + n, Fin(IF n % 2 = 0 THEN 450 ELSE 0 - 150))]
ForexReplies ==
  {[ok |-> FALSE, data |-> <<>>]}
    \cup {[ok |-> TRUE, data |-> JsonList(list)] : list \in ForexLists(DrawnPairs)}
    \cup {[ok |-> TRUE, data |-> JsonList(list \o RestOfPairs)] : list \in ForexLists(DrawnPairs)}

\* GET /api/forex-strength, up to the await of the internal request
StrengthRequest ==
  /\ strength.pc = "idle"
  /\ strength' = [strength EXCEPT !.pc = "http"]
  /\ UNCHANGED <<now, cache, cacheTime, req, provider, changes, written, served,
                 aggIn, aggOut, fmt, cell, sa, EODHD_KEY>>

\* after await http.get(.../api/forex).catch(() => null)
StrengthReply(reply) ==
  /\ strength.pc = "http"
  /\ LET data == IF reply.ok THEN reply.data ELSE <<>>
     IN strength' = [pc |-> "done", status |-> 200, body |-> StrengthResult(data),
                     ok |-> reply.ok, data |-> data]
  /\ UNCHANGED <<now, cache, cacheTime, req, provider, changes, written, served,
                 aggIn, aggOut, fmt, cell, sa, EODHD_KEY>>

(***************************************************************************)
(* formatMover on its own                                                  *)
(***************************************************************************)
\* the largest magnitude, in thousandths, of the percents drawn one by one
MaxPercent == 3500
MoverTypes == {"Stock", "Crypto", "Forex", "Commodity"}

\* the finite percents formatMover is applied to: every thousandth up to
\* MaxPercent, some larger ones, and numbers from 1e21 on
Percents ==
  {Fin(n) : n \in (0 - MaxPercent)..MaxPercent}
    \cup {Fin(123456), Fin(-99995), Fin(2000000)}
    \cup {Big(1), Big(-1)}

InitFormat ==
  /\ now = 0
  /\ cache = [e \in Endpoints |-> Empty]
  /\ cacheTime = [e \in Endpoints |-> 0]
  /\ req = [r \in ReqIds |-> NoRequest]
  /\ provider = "ok"
  /\ changes = 0
  /\ written = [e \in Endpoints |-> [set |-> FALSE, at |-> 0]]
  /\ served = [e \in Endpoints |-> [set |-> FALSE, at |-> 0, body |-> <<>>]]
  /\ aggIn = <<>>
  /\ aggOut = [set |-> FALSE, map |-> <<>>, sorted |-> <<>>]
  /\ strength = NoStrength
  /\ fmt \in {[NoFmt EXCEPT !.percent = pct, !.type = type] :
                pct \in Percents, type \in MoverTypes}
  /\ cell = NoCell
  /\ sa = NoSa
  /\ EODHD_KEY = TRUE

\* formatMover("Apple", "AAPL", percent, type)
FormatMover ==
  /\ ~fmt.set
  /\ fmt' = [fmt EXCEPT !.set = TRUE,
                        !.record = formatMover("Apple", "AAPL", fmt.percent, fmt.type)]
  /\ UNCHANGED <<now, cache, cacheTime, req, provider, changes, written, served,
                 aggIn, aggOut, strength, cell, sa, EODHD_KEY>>

(***************************************************************************)
(* One heatmap cell on its own                                             *)
(***************************************************************************)
\* the longest series a cell is computed from
MaxSeries == 20

\* n numeric samples, all different
Samples(n) == [i \in 1..n |-> Fin(BasePrice + i * Scale)]

\* the close array of a reply: the samples as they are, or with nulls among
\* them (which the filter removes)
WithNulls(series) ==
  IF Len(series) < 2 THEN <<Null>> \o series
  ELSE <<series[1], Null>> \o Tail(series) \o <<Null>>

InitCell ==
  /\ now = 0
  /\ cache = [e \in Endpoints |-> Empty]
  /\ cacheTime = [e \in Endpoints |-> 0]
  /\ req = [r \in ReqIds |-> NoRequest]
  /\ provider = "ok"
  /\ changes = 0
  /\ written = [e \in Endpoints |-> [set |-> FALSE, at |-> 0]]
  /\ served = [e \in Endpoints |-> [set |-> FALSE, at |-> 0, body |-> <<>>]]
  /\ aggIn = <<>>
  /\ aggOut = [set |-> FALSE, map |-> <<>>, sorted |-> <<>>]
  /\ strength = NoStrength
  /\ fmt = NoFmt
  /\ cell \in {[NoCell EXCEPT !.tf = Timeframes[t].tf, !.series = Samples(n),
                              !.closes = IF nulls THEN WithNulls(Samples(n))
                                         ELSE Samples(n)] :
                 t \in DOMAIN Timeframes, n \in 0..MaxSeries, nulls \in BOOLEAN}
  /\ sa = NoSa
  /\ EODHD_KEY = TRUE

\* lines 665-682 (746-763) applied to the reply
ComputeCell ==
  /\ ~cell.set
  /\ cell' = [cell EXCEPT !.set = TRUE,
                          !.pct = HeatmapCell(cell.tf, [ok |-> TRUE, data |-> TRUE,
                                                        closes |-> cell.closes])]
  /\ UNCHANGED <<now, cache, cacheTime, req, provider, changes, written, served,
                 aggIn, aggOut, strength, fmt, sa, EODHD_KEY>>

(***************************************************************************)
(* Specifications                                                          *)
(***************************************************************************)
\* one fetch cycle of a quote endpoint or of the aggregator, whatever the providers do
SpecFetchNext ==
  \/ \E e \in QuoteEndpoints : Quiet /\ QuoteRequest(1, e)
  \/ \E kind \in Kinds : QuoteReply(1, kind)
  \/ QuoteWake(1)
  \/ Quiet /\ MoversRequest(1)
  \/ \E f \in FetcherNames, kind \in Kinds : FetcherReplies(1, f, kind)
  \/ \E f \in FetcherNames : FetcherWakes(1, f)
  \/ \E kind \in Kinds : MoversIndexReply(1, kind)
  \/ MoversIndexWake(1)

SpecFetch == Init /\ [][SpecFetchNext]_vars

\* one fetch cycle of a heatmap, whatever the provider does
SpecHeatNext ==
  \/ \E e \in HeatmapEndpoints : Quiet /\ HeatmapRequest(1, e)
  \/ \E kind \in Kinds : HeatmapReply(1, kind)
  \/ HeatmapWake(1)

SpecHeat == Init /\ [][SpecHeatNext]_vars

\* requests to the eight cached endpoints, one after the other, at any age of
\* the cache entries; the providers change their behaviour between requests
Next ==
  \/ \E r \in ReqIds, e \in QuoteEndpoints : Quiet /\ QuoteRequest(r, e)
  \/ \E r \in ReqIds : QuoteReply(r, provider)
  \/ \E r \in ReqIds : QuoteWake(r)
  \/ \E r \in ReqIds : Quiet /\ MoversRequest(r)
  \/ \E r \in ReqIds, f \in FetcherNames : FetcherReplies(r, f, provider)
  \/ \E r \in ReqIds, f \in FetcherNames : FetcherWakes(r, f)
  \/ \E r \in ReqIds : MoversIndexReply(r, provider)
  \/ \E r \in ReqIds : MoversIndexWake(r)
  \/ \E r \in ReqIds, e \in HeatmapEndpoints : Quiet /\ HeatmapRequest(r, e)
  \/ \E r \in ReqIds : HeatmapReply(r, provider)
  \/ \E r \in ReqIds : HeatmapWake(r)
  \/ \E r \in ReqIds : Quiet /\ CalendarRequest(r)
  \/ \E r \in ReqIds : CalendarReply(r, provider)
  \/ Quiet /\ Tick
  \/ \E kind \in OutageKinds : Quiet /\ ProviderTurns(kind)

\* the providers start out well, down, or without data
InitOutages == Init /\ provider \in OutageKinds

Spec == InitOutages /\ [][Next]_vars

\* the ranking applied to every combined list of the bounded set
SpecAggNext == Aggregate

SpecAgg == InitAgg /\ [][SpecAggNext]_vars

\* /api/forex-strength, whatever its internal request to /api/forex returns
InitStrength == Init /\ provider = "ok"
SpecStrengthNext ==
  \/ StrengthRequest
  \/ \E reply \in ForexReplies : StrengthReply(reply)
SpecStrength == InitStrength /\ [][SpecStrengthNext]_vars

\* formatMover applied to one finite percent
SpecFormatNext == FormatMover
SpecFormat == InitFormat /\ [][SpecFormatNext]_vars

\* /api/economic-calendar alone: the server is started at midnight or late in
\* the evening, and the provider may answer with more events than are kept
CalendarKinds == Kinds \cup {"many"}
StartTimes == {0, 20 * Hour}
InitCalendar ==
  /\ now \in StartTimes
  /\ cache = [e \in Endpoints |-> Empty]
  /\ cacheTime = [e \in Endpoints |-> 0]
  /\ req = [r \in ReqIds |-> NoRequest]
  /\ provider \in CalendarKinds
  /\ changes = 0
  /\ written = [e \in Endpoints |-> [set |-> FALSE, at |-> 0]]
  /\ served = [e \in Endpoints |-> [set |-> FALSE, at |-> 0, body |-> <<>>]]
  /\ aggIn = <<>>
  /\ aggOut = [set |-> FALSE, map |-> <<>>, sorted |-> <<>>]
  /\ strength = NoStrength
  /\ fmt = NoFmt
  /\ cell = NoCell
  /\ sa = NoSa
  /\ EODHD_KEY = TRUE
SpecCalendarNext ==
  \/ \E r \in ReqIds : Quiet /\ CalendarRequest(r)
  \/ \E r \in ReqIds, kind \in CalendarKinds : CalendarReply(r, kind)
  \/ Quiet /\ Tick
SpecCalendar == InitCalendar /\ [][SpecCalendarNext]_vars

\* one heatmap cell computed from a series of any length up to MaxSeries
SpecCellNext == ComputeCell
SpecCell == InitCell /\ [][SpecCellNext]_vars

\* requests that overlap: a request may arrive while the handler of another one
\* is between two awaits
RaceEndpoints == {"indices", "commodities"}
SpecRaceNext ==
  \/ \E r \in ReqIds, e \in RaceEndpoints : QuoteRequest(r, e)
  \/ \E r \in ReqIds, kind \in OutageKinds : QuoteReply(r, kind)
  \/ \E r \in ReqIds : QuoteWake(r)
  \/ \E r \in ReqIds : CalendarRequest(r)
  \/ \E r \in ReqIds, kind \in OutageKinds : CalendarReply(r, kind)
SpecRace == InitOutages /\ [][SpecRaceNext]_vars

\* one fetch cycle of the aggregator, with or without the key of eodhd
InitKeys ==
  /\ now = 0
  /\ cache = [e \in Endpoints |-> Empty]
  /\ cacheTime = [e \in Endpoints |-> 0]
  /\ req = [r \in ReqIds |-> NoRequest]
  /\ provider \in OutageKinds
  /\ changes = 0
  /\ written = [e \in Endpoints |-> [set |-> FALSE, at |-> 0]]
  /\ served = [e \in Endpoints |-> [set |-> FALSE, at |-> 0, body |-> <<>>]]
  /\ aggIn = <<>>
  /\ aggOut = [set |-> FALSE, map |-> <<>>, sorted |-> <<>>]
  /\ strength = NoStrength
  /\ fmt = NoFmt
  /\ cell = NoCell
  /\ sa = NoSa
  /\ EODHD_KEY \in BOOLEAN

SpecKeysNext ==
  \/ Quiet /\ MoversRequest(1)
  \/ \E f \in FetcherNames, kind \in OutageKinds : FetcherReplies(1, f, kind)
  \/ \E f \in FetcherNames : FetcherWakes(1, f)
  \/ \E kind \in OutageKinds : MoversIndexReply(1, kind)
  \/ MoversIndexWake(1)

SpecKeys == InitKeys /\ [][SpecKeysNext]_vars

\* the same cycle under providers that are down or without data from the start
\* (a call that returns data is followed by the sleep like a call that throws;
\* a call without data is followed at once by the next call)
InitLive ==
  /\ now = 0
  /\ cache = [e \in Endpoints |-> Empty]
  /\ cacheTime = [e \in Endpoints |-> 0]
  /\ req = [r \in ReqIds |-> NoRequest]
  /\ provider \in {"throw", "nodata"}
  /\ changes = 0
  /\ written = [e \in Endpoints |-> [set |-> FALSE, at |-> 0]]
  /\ served = [e \in Endpoints |-> [set |-> FALSE, at |-> 0, body |-> <<>>]]
  /\ aggIn = <<>>
  /\ aggOut = [set |-> FALSE, map |-> <<>>, sorted |-> <<>>]
  /\ strength = NoStrength
  /\ fmt = NoFmt
  /\ cell = NoCell
  /\ sa = NoSa
  /\ EODHD_KEY \in BOOLEAN

\* a reply or a timer a handler or a fetcher awaits comes
RepliesAndTimers ==
  \/ \E f \in FetcherNames : FetcherReplies(1, f, provider)
  \/ \E f \in FetcherNames : FetcherWakes(1, f)
  \/ MoversIndexReply(1, provider)
  \/ MoversIndexWake(1)

SpecLiveNext ==
  \/ Quiet /\ MoversRequest(1)
  \/ RepliesAndTimers

\* every provider call is answered or fails after some time and every timer
\* fires: http is axios.create({ timeout: 0 }), without a timeout of its own
SpecLive == InitLive /\ [][SpecLiveNext]_vars /\ WF_vars(RepliesAndTimers)

\* /api/sa-markets alone: each of the three endpoints it asks fails or answers
\* with the records of any of its symbols
InitSa ==
  /\ now = 0
  /\ cache = [e \in Endpoints |-> Empty]
  /\ cacheTime = [e \in Endpoints |-> 0]
  /\ req = [r \in ReqIds |-> NoRequest]
  /\ provider = "ok"
  /\ changes = 0
  /\ written = [e \in Endpoints |-> [set |-> FALSE, at |-> 0]]
  /\ served = [e \in Endpoints |-> [set |-> FALSE, at |-> 0, body |-> <<>>]]
  /\ aggIn = <<>>
  /\ aggOut = [set |-> FALSE, map |-> <<>>, sorted |-> <<>>]
  /\ strength = NoStrength
  /\ fmt = NoFmt
  /\ cell = NoCell
  /\ sa = NoSa
  /\ EODHD_KEY = TRUE

SpecSaNext ==
  \/ SaRequest
  \/ \E reply \in InternalReplies("indices") : SaIndicesReply(reply)
  \/ \E reply \in InternalReplies("forex") : SaForexReply(reply)
  \/ \E reply \in InternalReplies("commodities") : SaCommoditiesReply(reply)

SpecSa == InitSa /\ [][SpecSaNext]_vars

(***************************************************************************)
(* Properties of the response cache                                        *)
(***************************************************************************)
\* the requests that have arrived
Arrivals == {r \in ReqIds : req[r].ep \in Endpoints}

\* the age, at the arrival of request r, of what its endpoint wrote last
AgeOfEntry(r) == req[r].at - req[r].seen.at

\* C1: a request is answered from the stored entry, with no provider call, if and
\* only if an entry of its endpoint has been written and now - writtenAt < TTL
\* at its arrival; otherwise it runs a fetch cycle, which calls the provider
CacheHitIffFresh ==
  \A r \in Arrivals :
    /\ req[r].hit <=> (req[r].seen.set /\ AgeOfEntry(r) < TTL(req[r].ep))
    /\ req[r].hit => req[r].calls = 0 /\ req[r].pc = "done" /\ req[r].status = 200
    /\ ~req[r].hit => req[r].calls >= 1

\* the calendar entry is reused one millisecond before it is six hours old
CacheHitAtLastInstant ==
  \E r \in Arrivals :
    /\ req[r].ep = "economic-calendar"
    /\ req[r].hit
    /\ AgeOfEntry(r) = TTL(req[r].ep) - 1

\* C1, the other side: at the age of exactly TTL the entry is no longer reused
CacheMissAtTTL ==
  \E r \in Arrivals :
    /\ req[r].seen.set
    /\ AgeOfEntry(r) = TTL(req[r].ep)
    /\ ~req[r].hit
    /\ req[r].pc = "done"

\* C2: once a request to an endpoint has run its fetch cycle and been answered
\* with success, a later request to that endpoint within the TTL gets the same
\* payload and calls no provider, whatever the payload and the provider's state
SecondRequestReusesFirst ==
  \A r \in Arrivals :
    (req[r].prior.set /\ req[r].at - req[r].prior.at < TTL(req[r].ep))
      => /\ req[r].calls = 0
         /\ req[r].pc = "done" /\ req[r].status = 200
         /\ req[r].body = req[r].prior.body

\* what does hold for C2: a request that follows a first one whose fetch cycle
\* wrote the slot, within the TTL, gets that payload and calls no provider
SecondRequestReusesWritten ==
  \A r \in Arrivals :
    (req[r].seen.set /\ AgeOfEntry(r) < TTL(req[r].ep))
      => /\ req[r].calls = 0
         /\ req[r].status = 200
         /\ req[r].prior.set /\ req[r].prior.at = req[r].seen.at
         /\ req[r].body = req[r].prior.body

\* an empty list, cached by a quote endpoint whose every symbol failed, is reused
\* while the provider is down
EmptyPayloadReused ==
  \E r \in Arrivals :
    /\ req[r].ep \in QuoteEndpoints
    /\ req[r].hit /\ req[r].body = <<>>
    /\ provider = "throw"

\* the calendar answered [] without writing its slot, and the next request
\* within the TTL calls the provider again
CalendarEmptyNotReused ==
  \E r \in Arrivals :
    /\ req[r].ep = "economic-calendar"
    /\ req[r].prior.set /\ req[r].prior.body = <<>> /\ ~req[r].seen.set
    /\ req[r].at - req[r].prior.at < TTL(req[r].ep)
    /\ req[r].calls = 1

(***************************************************************************)
(* Properties of the fetchers and of the join of /api/all-movers           *)
(***************************************************************************)
RecordEndpoints == QuoteEndpoints \cup {"all-movers"}

\* the requests to /api/all-movers whose four fetchers have settled
PastJoin ==
  {r \in Arrivals : req[r].ep = "all-movers" /\ ~req[r].hit /\ req[r].pc # "join"}

\* a fetcher all of whose provider calls failed
FailedFetcher(fs) == fs.pc = "done" /\ \A n \in DOMAIN fs.log : fs.log[n] = "throw"

\* C6: whichever of the four mover fetchers fail, /api/all-movers is answered
\* with HTTP 200; a failed fetcher adds no record and every record a fetcher
\* returned is in the combined list, which holds nothing else
JoinToleratesFailures ==
  /\ \A r \in Arrivals : req[r].ep = "all-movers" =>
       /\ req[r].status \in {0, 200}
       /\ req[r].pc = "done" => req[r].status = 200
       /\ \A f \in FetcherNames : FailedFetcher(req[r].fet[f]) => req[r].fet[f].items = <<>>
  /\ \A r \in PastJoin :
       /\ \A f \in FetcherNames :
            \A n \in DOMAIN req[r].fet[f].items :
              \E m \in DOMAIN req[r].joined : req[r].joined[m] = req[r].fet[f].items[n]
       /\ Len(req[r].joined) = Len(req[r].fet["stocks"].items)
                               + Len(req[r].fet["crypto"].items)
                               + Len(req[r].fet["forex"].items)
                               + Len(req[r].fet["commodities"].items)

\* the stock and the forex fetcher failed, the other two returned records, and
\* the request was answered with HTTP 200
JoinWithTwoFailedFetchers ==
  \E r \in PastJoin :
    /\ req[r].pc = "done" /\ req[r].status = 200
    /\ FailedFetcher(req[r].fet["stocks"]) /\ FailedFetcher(req[r].fet["forex"])
    /\ req[r].fet["crypto"].items # <<>> /\ req[r].fet["commodities"].items # <<>>
    /\ Len(req[r].joined) = Len(req[r].fet["crypto"].items)
                            + Len(req[r].fet["commodities"].items)

\* C9: no record with a non-finite rawChange is produced by an asset-class
\* endpoint or a mover fetcher, enters the working list of /api/all-movers, or
\* is written to a cache
NoNonFiniteRecord ==
  /\ \A r \in Arrivals : req[r].ep \in RecordEndpoints /\ ~req[r].hit =>
       /\ \A n \in DOMAIN req[r].results : IsFinite(req[r].results[n].rawChange)
       /\ \A n \in DOMAIN req[r].joined : IsFinite(req[r].joined[n].rawChange)
       /\ \A f \in FetcherNames :
            \A n \in DOMAIN req[r].fet[f].items : IsFinite(req[r].fet[f].items[n].rawChange)
  /\ \A e \in RecordEndpoints :
       \A n \in DOMAIN cache[e].value : IsFinite(cache[e].value[n].rawChange)

\* a record with rawChange Infinity, made from a series whose previous close is
\* 0, is in the cache of /api/crypto
InfiniteRecordCached ==
  \E n \in DOMAIN cache["crypto"].value : cache["crypto"].value[n].rawChange = PInf

\* a record with rawChange NaN, made by the stock fetcher from a change_percent
\* that is no number, is in the cache of /api/all-movers
NaNRecordCached ==
  \E n \in DOMAIN cache["all-movers"].value :
    /\ cache["all-movers"].value[n].rawChange = NaN
    /\ cache["all-movers"].value[n].type = "Stock"

\* within one request the stock fetcher made a NaN record and a -5.0 record of one
\* symbol, and the NaN record is the one in the cache of /api/all-movers
NaNRecordHidesLarger ==
  \E r \in PastJoin :
    /\ req[r].pc = "done"
    /\ \E n, m \in DOMAIN req[r].joined :
         /\ req[r].joined[n].symbol = "AAPL" /\ req[r].joined[n].rawChange = NaN
         /\ req[r].joined[m].symbol = "AAPL" /\ req[r].joined[m].rawChange = Fin(-5000)
    /\ \E n \in DOMAIN cache["all-movers"].value :
         /\ cache["all-movers"].value[n].symbol = "AAPL"
         /\ cache["all-movers"].value[n].rawChange = NaN

\* the replies a per-symbol failure is made of, and the reply of a normal day
PlainKinds == {"ok", "throw", "nodata", "short"}
Plain(log) == \A n \in DOMAIN log : log[n] \in PlainKinds

Names(records) == [n \in DOMAIN records |-> records[n].name]

\* the names of the symbols whose reply, as logged, was that of a normal day
RECURSIVE Succeeded(_, _)
Succeeded(symbols, log) ==
  IF log = <<>> \/ symbols = <<>> THEN <<>>
  ELSE (IF Head(log) = "ok" THEN <<Head(symbols).name>> ELSE <<>>)
         \o Succeeded(Tail(symbols), Tail(log))

\* the names the stock fetcher returns: those of the screener sides that answered
RECURSIVE SucceededSides(_, _)
SucceededSides(sides, log) ==
  IF log = <<>> \/ sides = <<>> THEN <<>>
  ELSE (IF Head(log) = "ok" THEN Names(Slice(NormalTop(Head(sides)), StockLimit))
        ELSE IF Head(log) = "short" THEN <<"Apple">> ELSE <<>>)
         \o SucceededSides(Tail(sides), Tail(log))

\* C10: in a per-class endpoint and in a mover fetcher, symbols that fail (the
\* call throws, no data, fewer than two samples) never give an HTTP error: the
\* result holds exactly the records of the symbols that succeeded, in order, and
\* is empty when all failed
FailuresOnlyShrinkResult ==
  \A r \in Arrivals :
    /\ (req[r].ep \in QuoteEndpoints /\ ~req[r].hit) =>
         /\ req[r].status \in {0, 200}
         /\ req[r].pc = "done" =>
              req[r].status = 200 /\ Len(req[r].body) = Len(req[r].results)
         /\ Plain(req[r].log) =>
              Names(req[r].results) = Succeeded(SymbolsOf(req[r].ep), req[r].log)
    /\ (req[r].ep = "all-movers" /\ ~req[r].hit) =>
         /\ req[r].status \in {0, 200}
         /\ \A f \in {"crypto", "commodities"} :
              Plain(req[r].fet[f].log) =>
                Names(req[r].fet[f].items) = Succeeded(FetcherSymbols(f), req[r].fet[f].log)
         /\ Plain(req[r].fet["stocks"].log) =>
              Names(req[r].fet["stocks"].items)
                = SucceededSides(Sides, req[r].fet["stocks"].log)
         /\ req[r].fet["forex"].log \in {<<"throw">>, <<"nodata">>} =>
              req[r].fet["forex"].items = <<>>
         /\ req[r].fet["forex"].log = <<"short">> =>
              Names(req[r].fet["forex"].items) = <<FOREX_PAIRS[1]>>
         /\ req[r].fet["forex"].log = <<"ok">> =>
              Names(req[r].fet["forex"].items) = FOREX_PAIRS
         /\ (req[r].pc # "join" /\ Plain(req[r].log)) =>
              Names(SubSeq(req[r].results, Len(req[r].joined) + 1, Len(req[r].results)))
                = Succeeded(INDEX_SYMBOLS, req[r].log)

\* /api/indices answered 200 with the records of the symbols that succeeded,
\* after the calls of its first symbols had thrown
PartialFailureAnswered ==
  \E r \in Arrivals :
    /\ req[r].ep = "indices" /\ req[r].pc = "done" /\ req[r].status = 200
    /\ req[r].log[1] = "throw"
    /\ req[r].results # <<>>
    /\ Len(req[r].results) < Len(INDEX_SYMBOLS)

\* every symbol of the commodity fetcher failed and it returned the empty list
WhollyFailedFetcherEmpty ==
  \E r \in PastJoin :
    /\ FailedFetcher(req[r].fet["commodities"])
    /\ req[r].fet["commodities"].items = <<>>
    /\ req[r].status = 200

(***************************************************************************)
(* Properties of the heatmaps                                              *)
(***************************************************************************)
Labels(e) == {SymbolsOf(e)[n].name : n \in 1..Len(SymbolsOf(e))}
TimeframeKeys == {Timeframes[n].tf : n \in 1..Len(Timeframes)}

\* the replies to the calls made for the n-th symbol of a heatmap, as logged
RepliesFor(log, n) ==
  {log[m] : m \in {k \in DOMAIN log : (k - 1) \div Len(Timeframes) = n - 1}}

\* grid has a row for every symbol of e and the four timeframe keys in every row
FullGrid(e, grid) ==
  /\ DOMAIN grid = Labels(e)
  /\ \A label \in DOMAIN grid : DOMAIN grid[label] = TimeframeKeys

\* C7: every heatmap response has a row for every symbol and the keys 1h, 4h,
\* 1d, 1w in every row, whatever calls failed; the cells of a symbol whose series
\* has one sample, or whose calls throw, are null, and the request does not fail
HeatmapAlwaysFull ==
  /\ \A r \in Arrivals : req[r].ep \in HeatmapEndpoints =>
       /\ req[r].status \in {0, 200}
       /\ req[r].pc = "done" =>
            /\ req[r].status = 200
            /\ FullGrid(req[r].ep, req[r].body)
       /\ (req[r].pc = "done" /\ ~req[r].hit) =>
            \A n \in 1..Len(SymbolsOf(req[r].ep)) :
              RepliesFor(req[r].log, n) \subseteq {"short", "throw", "nodata"} =>
                \A tf \in TimeframeKeys :
                  req[r].body[SymbolsOf(req[r].ep)[n].name][tf] = Null
  /\ \A e \in HeatmapEndpoints : cache[e].set => FullGrid(e, cache[e].value)

\* a heatmap was answered whose first row is all null, its symbol's series
\* having one sample, and whose last row holds numbers
HeatmapWithNullRow ==
  \E r \in Arrivals :
    /\ req[r].ep = "forex-heatmap" /\ req[r].pc = "done" /\ req[r].status = 200
    /\ RepliesFor(req[r].log, 1) = {"short"}
    /\ \A tf \in TimeframeKeys : req[r].body[SymbolsOf(req[r].ep)[1].name][tf] = Null
    /\ \A tf \in TimeframeKeys :
         IsFinite(req[r].body[SymbolsOf(req[r].ep)[Len(SymbolsOf(req[r].ep))].name][tf])

\* C8: a cell whose previous price is zero or invalid is null in the grid stored
\* in the heatmap cache and in the response; no cell holds a non-finite number
NoNonFiniteCell ==
  /\ \A e \in HeatmapEndpoints :
       \A label \in DOMAIN cache[e].value :
         \A tf \in DOMAIN cache[e].value[label] :
           cache[e].value[label][tf] = Null \/ IsFinite(cache[e].value[label][tf])
  /\ \A r \in Arrivals : (req[r].ep \in HeatmapEndpoints /\ req[r].pc = "done") =>
       \A label \in DOMAIN req[r].body :
         \A tf \in DOMAIN req[r].body[label] :
           req[r].body[label][tf] = Null \/ IsFinite(req[r].body[label][tf])

\* what does hold for C8: the response, as JSON, has null in such a cell
NoNonFiniteCellSent ==
  \A r \in Arrivals : (req[r].ep \in HeatmapEndpoints /\ req[r].pc = "done") =>
    \A label \in DOMAIN req[r].body :
      \A tf \in DOMAIN req[r].body[label] :
        req[r].body[label][tf] = Null \/ IsFinite(req[r].body[label][tf])

\* Infinity is stored in the forex heatmap cache, in a cell whose previous price
\* was 0, while the response held null there
InfiniteCellCached ==
  \E r \in Arrivals, label \in Labels("forex-heatmap"), tf \in TimeframeKeys :
    /\ req[r].ep = "forex-heatmap" /\ req[r].pc = "done"
    /\ cache["forex-heatmap"].set
    /\ cache["forex-heatmap"].value[label][tf] = PInf
    /\ req[r].body[label][tf] = Null

(***************************************************************************)
(* Properties of the ranking of /api/all-movers                            *)
(***************************************************************************)
SymbolsIn(list) == {list[n].symbol : n \in DOMAIN list}
Comparable(record) == record.rawChange.k # "nan"

\* C3: for every symbol of the combined list the deduplicated set has exactly
\* one record, and no record of that symbol has a larger absolute raw percent,
\* in whatever order the records were combined
DedupKeepsLargest ==
  aggOut.set =>
    /\ SymbolsIn(aggOut.map) = SymbolsIn(aggIn)
    /\ \A n \in DOMAIN aggOut.map :
         /\ \A m \in DOMAIN aggOut.map : aggOut.map[m].symbol = aggOut.map[n].symbol => m = n
         /\ \E m \in DOMAIN aggIn : aggIn[m] = aggOut.map[n]
         /\ \A m \in DOMAIN aggIn :
              (aggIn[m].symbol = aggOut.map[n].symbol /\ Comparable(aggIn[m]))
                => Ge(Abs(aggOut.map[n].rawChange), Abs(aggIn[m].rawChange))

\* what does hold for C3: the same, on combined lists without a NaN
DedupKeepsLargestOfNumbers ==
  (aggOut.set /\ \A m \in DOMAIN aggIn : Comparable(aggIn[m])) =>
    /\ SymbolsIn(aggOut.map) = SymbolsIn(aggIn)
    /\ \A n \in DOMAIN aggOut.map :
         /\ \A m \in DOMAIN aggOut.map : aggOut.map[m].symbol = aggOut.map[n].symbol => m = n
         /\ \A m \in DOMAIN aggIn :
              aggIn[m].symbol = aggOut.map[n].symbol
                => Ge(Abs(aggOut.map[n].rawChange), Abs(aggIn[m].rawChange))

\* +2.0 then -5.0 for one symbol: the -5.0 record is kept
DedupKeptLater ==
  /\ aggOut.set
  /\ aggIn = <<Mover("AAPL", Fin(2000)), Mover("AAPL", Fin(-5000))>>
  /\ aggOut.map = <<Mover("AAPL", Fin(-5000))>>

\* NaN then -5.0 for one symbol: the NaN record is kept
DedupKeptNaN ==
  /\ aggOut.set
  /\ aggIn = <<Mover("AAPL", NaN), Mover("AAPL", Fin(-5000))>>
  /\ aggOut.map = <<Mover("AAPL", NaN)>>

\* C4: the response is ordered non-increasing by absolute raw percent, and no
\* record left out by the cut has a larger absolute raw percent than a kept one
OutputOrdered ==
  aggOut.set =>
    /\ \A i, j \in DOMAIN aggOut.sorted :
         (i < j /\ Comparable(aggOut.sorted[i]) /\ Comparable(aggOut.sorted[j]))
           => Ge(Abs(aggOut.sorted[i].rawChange), Abs(aggOut.sorted[j].rawChange))
    /\ \A i \in DOMAIN aggOut.sorted, n \in DOMAIN aggOut.map :
         ( /\ \A j \in DOMAIN aggOut.sorted : aggOut.sorted[j] # aggOut.map[n]
           /\ Comparable(aggOut.sorted[i]) /\ Comparable(aggOut.map[n]) )
           => Ge(Abs(aggOut.sorted[i].rawChange), Abs(aggOut.map[n].rawChange))

\* what does hold for C4: the same, on combined lists without a NaN
OutputOrderedOfNumbers ==
  (aggOut.set /\ \A m \in DOMAIN aggIn : Comparable(aggIn[m])) =>
    /\ \A i \in 1..(Len(aggOut.sorted) - 1) :
         Ge(Abs(aggOut.sorted[i].rawChange), Abs(aggOut.sorted[i + 1].rawChange))
    /\ \A n \in DOMAIN aggOut.map :
         (\A j \in DOMAIN aggOut.sorted : aggOut.sorted[j] # aggOut.map[n])
           => Ge(Abs(aggOut.sorted[Len(aggOut.sorted)].rawChange),
                 Abs(aggOut.map[n].rawChange))

\* a record of -5.0 stands before one of -6.3 in the response, a NaN between them
OutputMisordered ==
  /\ aggOut.set
  /\ Len(aggOut.sorted) = 10
  /\ aggOut.sorted[1].rawChange = Fin(-5000)
  /\ aggOut.sorted[2].rawChange = NaN
  /\ aggOut.sorted[3].rawChange = Fin(-6300)

\* C5: the response has min(10, number of distinct symbols of the combined
\* list) records, and so never more than 10
OutputLength ==
  aggOut.set =>
    /\ Len(aggOut.sorted) = Min(10, Cardinality(SymbolsIn(aggIn)))
    /\ Len(aggOut.sorted) <= 10

\* 15 distinct symbols give exactly 10 records
FifteenGiveTen ==
  /\ aggOut.set
  /\ Cardinality(SymbolsIn(aggIn)) = 15
  /\ Len(aggOut.map) = 15
  /\ Len(aggOut.sorted) = 10

(***************************************************************************)
(* Properties of the providers' total outage                               *)
(***************************************************************************)
AllThrew(log) == log # <<>> /\ \A n \in DOMAIN log : log[n] = "throw"

\* the requests that have been answered after a fetch cycle in which every
\* provider call failed for a reason unrelated to one symbol (the call threw)
AnsweredInOutage ==
  {r \in Arrivals :
     /\ req[r].pc = "done" /\ ~req[r].hit
     /\ AllThrew(req[r].log)
     /\ req[r].ep = "all-movers" =>
          \A f \in FetcherNames : AllThrew(req[r].fet[f].log)}

\* C11: a request answered while every provider call of its endpoint fails is
\* answered with HTTP 500 and an error body, on every endpoint
OutageGives500 ==
  \A r \in AnsweredInOutage : req[r].status = 500 /\ req[r].body # <<>>

\* /api/indices was answered 200 with the empty list after each of its calls threw
IndicesOutageAnswered200 ==
  \E r \in AnsweredInOutage :
    /\ req[r].ep = "indices"
    /\ Len(req[r].log) = Len(INDEX_SYMBOLS)
    /\ req[r].status = 200 /\ req[r].body = <<>>

\* what the code does in an outage: only /api/economic-calendar answers 500
OutageGives500OnlyForCalendar ==
  \A r \in AnsweredInOutage :
    IF req[r].ep = "economic-calendar"
      THEN req[r].status = 500 /\ req[r].body = <<"Failed to fetch economic calendar">>
      ELSE req[r].status = 200

\* /api/all-movers was answered 200 with the empty list after each call of its
\* four fetchers and of its index loop threw
MoversOutageAnswered200 ==
  \E r \in AnsweredInOutage : req[r].ep = "all-movers" /\ req[r].body = <<>>

(***************************************************************************)
(* Properties of /api/forex-strength                                       *)
(***************************************************************************)
\* the percent a forex record displays in its change field
Shown(item) == ParseFloatText(item.change)

\* the positions of the records whose pair has currency c as base, as quote
AsBase(c, data) == {n \in DOMAIN data : SplitPair(data[n].pair)[1] = c}
AsQuote(c, data) == {n \in DOMAIN data : SplitPair(data[n].pair)[2] = c}

RECURSIVE SumShown(_, _)
\* the sum, in thousandths, of the percents displayed at a set of positions
SumShown(positions, data) ==
  IF positions = {} THEN 0
  ELSE LET n == CHOOSE m \in positions : TRUE
       IN Shown(data[n]).v + SumShown(positions \ {n}, data)

AllShownFinite(data) == \A n \in DOMAIN data : IsFinite(Shown(data[n]))

\* C12: for a list of forex records with finite displayed percents, each
\* currency's label is that of (sum of the percents of the pairs it is base of
\* - sum of the percents of the pairs it is quote of) / (number of pairs it
\* appears in): Strong from 0.3 up, Weak from -0.3 down, Neutral between
StrengthIsAverageOfPairs ==
  (strength.pc = "done" /\ AllShownFinite(strength.data)) =>
    \A c \in CurrencyCodes :
      LET plus == AsBase(c, strength.data)
          minus == AsQuote(c, strength.data)
          sum == SumShown(plus, strength.data) - SumShown(minus, strength.data)
          count == Cardinality(plus) + Cardinality(minus)
      IN /\ c \in DOMAIN strength.body
         /\ strength.body[c] =
              IF count > 0 /\ sum * 10 >= 3 * Scale * count THEN "Strong"
              ELSE IF count > 0 /\ sum * 10 <= -3 * Scale * count THEN "Weak"
              ELSE "Neutral"

\* EUR/USD +1.00% and GBP/USD -1.00% gave USD Neutral, EUR Strong, GBP Weak
StrengthOfTwoPairs ==
  /\ strength.pc = "done"
  /\ Len(strength.data) = 2
  /\ strength.data[1].pair = "EUR/USD" /\ Shown(strength.data[1]) = Fin(Scale)
  /\ strength.data[2].pair = "GBP/USD" /\ Shown(strength.data[2]) = Fin(-Scale)
  /\ strength.body["USD"] = "Neutral"
  /\ strength.body["EUR"] = "Strong"
  /\ strength.body["GBP"] = "Weak"

\* the percent read is the displayed one: a pair that moved by 0.296 % is shown
\* as +0.30% and makes its base currency Strong
StrengthFromRoundedPercent ==
  /\ strength.pc = "done"
  /\ Len(strength.data) = 1
  /\ strength.data[1].rawChange = Fin(296)
  /\ strength.body["EUR"] = "Strong"

\* C13: the response of /api/forex-strength is HTTP 200 and holds exactly the
\* seven currency codes; a currency of no returned pair is Neutral, and all are
\* Neutral when the internal request failed or returned no record
StrengthAlwaysSevenCodes ==
  strength.pc = "done" =>
    /\ strength.status = 200
    /\ DOMAIN strength.body = {"USD", "EUR", "GBP", "JPY", "AUD", "CHF", "ZAR"}
    /\ \A c \in DOMAIN strength.body :
         /\ strength.body[c] \in {"Strong", "Weak", "Neutral"}
         /\ (AsBase(c, strength.data) \cup AsQuote(c, strength.data) = {}) =>
              strength.body[c] = "Neutral"
    /\ (~strength.ok \/ strength.data = <<>>) =>
         \A c \in DOMAIN strength.body : strength.body[c] = "Neutral"

\* the internal request failed and the response was 200 with seven Neutral
StrengthAfterFailedRequest ==
  /\ strength.pc = "done" /\ ~strength.ok
  /\ strength.status = 200
  /\ Cardinality(DOMAIN strength.body) = 7
  /\ \A c \in DOMAIN strength.body : strength.body[c] = "Neutral"

\* some pairs were returned, and a currency of none of them is Neutral beside a
\* Strong one
StrengthWithAbsentCurrency ==
  /\ strength.pc = "done" /\ strength.ok
  /\ strength.data # <<>>
  /\ AsBase("AUD", strength.data) = {} /\ AsQuote("AUD", strength.data) = {}
  /\ strength.body["AUD"] = "Neutral"
  /\ \E c \in DOMAIN strength.body : strength.body[c] = "Strong"

(***************************************************************************)
(* Properties of formatMover                                               *)
(***************************************************************************)
\* the record formatMover returned: its display string starts with "+" exactly
\* when its trend is positive, which is exactly when the percent is not below 0,
\* and its rawChange is the percent it was given
SignedAndUnrounded ==
  /\ fmt.record.trend \in {"positive", "negative"}
  /\ (fmt.record.trend = "positive") <=> ~Gt(Fin(0), fmt.percent)
  /\ (fmt.record.performance.prefix = "+") <=> (fmt.record.trend = "positive")
  /\ (fmt.record.performance.prefix = "") <=> fmt.record.performance.num.neg
  /\ fmt.record.rawChange = fmt.percent

\* the display string is digits with exactly two decimals followed by "%", and
\* the two decimals are those of the percent rounded to hundredths
TwoDecimalsAndSuffix ==
  /\ fmt.record.performance.num.txt = "digits"
  /\ fmt.record.performance.suffix = "%"
  /\ fmt.percent.k = "fin" =>
       LET shown == fmt.record.performance.num.cents * (Scale \div 100)
           size == IF fmt.percent.v < 0 THEN 0 - fmt.percent.v ELSE fmt.percent.v
       IN shown - size \in (0 - 4)..5

\* C14: for every finite percent the record of formatMover has trend positive
\* iff percent >= 0, a display string starting with "+" iff the trend is
\* positive, with exactly two decimals and a "%" suffix, and the unrounded
\* percent as rawChange
FormatMoverContract ==
  (fmt.set /\ IsFinite(fmt.percent)) => SignedAndUnrounded /\ TwoDecimalsAndSuffix

\* the same for the percents below 1e21 in magnitude, which is what holds
FormatMoverContractBelow1e21 ==
  (fmt.set /\ fmt.percent.k = "fin") => SignedAndUnrounded /\ TwoDecimalsAndSuffix

\* a percent of 1e21 was formatted and its display string is in exponent
\* notation ("+1e+21%"), with no decimals
ExponentDisplayed ==
  /\ fmt.set /\ fmt.percent = Big(1)
  /\ fmt.record.performance.prefix = "+"
  /\ fmt.record.performance.num.txt = "exponent"

\* percent 0 gave "+0.00%" with trend positive
ZeroFormatted ==
  /\ fmt.set /\ fmt.percent = Fin(0)
  /\ fmt.record.performance =
       [prefix |-> "+", num |-> [txt |-> "digits", neg |-> FALSE, cents |-> 0],
        suffix |-> "%"]
  /\ fmt.record.trend = "positive"

\* percent -3.456 gave "-3.46%" with trend negative and rawChange -3.456
NegativeFormatted ==
  /\ fmt.set /\ fmt.percent = Fin(-3456)
  /\ fmt.record.performance =
       [prefix |-> "", num |-> [txt |-> "digits", neg |-> TRUE, cents |-> 346],
        suffix |-> "%"]
  /\ fmt.record.trend = "negative"
  /\ fmt.record.rawChange = Fin(-3456)

(***************************************************************************)
(* Properties of /api/economic-calendar                                    *)
(***************************************************************************)
\* the answered requests to /api/economic-calendar
CalendarAnswers ==
  {r \in Arrivals : req[r].ep = "economic-calendar" /\ req[r].pc = "done"
                    /\ req[r].status = 200}

\* the start of the day a request arrived on
StartOfDay(r) == req[r].at - (req[r].at % Day)

\* at most 100 events, in non-decreasing order of date-time
CappedAndOrdered(body) ==
  /\ Len(body) <= 100
  /\ \A n, m \in DOMAIN body : n < m => body[n].rawDateTime <= body[m].rawDateTime

\* the date-times of the provider's events that pass the filters of a request
\* that called the provider: named, of a major country, not before the day
PassingOf(r) ==
  LET events == FmpCalendar(req[r].log[1], req[r].at).events
  IN {events[n].date : n \in {m \in DOMAIN events :
                                /\ events[m].event # "" /\ events[m].country # ""
                                /\ events[m].country \in {"US", "ZA"}
                                /\ events[m].date >= StartOfDay(r)}}

\* C15: every response of /api/economic-calendar holds at most 100 events, in
\* non-decreasing order of date-time, none dated before the start of the current
\* day, and holds the 100 earliest when more than 100 pass the filters
CalendarResponseBounded ==
  \A r \in CalendarAnswers :
    /\ CappedAndOrdered(req[r].body)
    /\ \A n \in DOMAIN req[r].body : req[r].body[n].rawDateTime >= StartOfDay(r)
    /\ ~req[r].hit =>
         \A date \in PassingOf(r) :
           \/ \E n \in DOMAIN req[r].body : req[r].body[n].rawDateTime = date
           \/ /\ Len(req[r].body) = 100
              /\ \A n \in DOMAIN req[r].body : req[r].body[n].rawDateTime <= date

\* a request answered from the cache after midnight got events of the day before
YesterdaysEventsServed ==
  \E r \in CalendarAnswers :
    /\ req[r].hit
    /\ \E n \in DOMAIN req[r].body : req[r].body[n].rawDateTime < StartOfDay(r)

\* what holds: the bound on the number and the order for every response, the
\* dates and the choice of the earliest for the responses of a fetch cycle
CalendarFetchedResponseBounded ==
  \A r \in CalendarAnswers :
    /\ CappedAndOrdered(req[r].body)
    /\ ~req[r].hit =>
         /\ \A n \in DOMAIN req[r].body : req[r].body[n].rawDateTime >= StartOfDay(r)
         /\ \A date \in PassingOf(r) :
              \/ \E n \in DOMAIN req[r].body : req[r].body[n].rawDateTime = date
              \/ /\ Len(req[r].body) = 100
                 /\ \A n \in DOMAIN req[r].body : req[r].body[n].rawDateTime <= date

\* 104 events passed the filters and the response holds 100 of them
HundredOfMoreKept ==
  \E r \in CalendarAnswers :
    /\ ~req[r].hit
    /\ Cardinality(PassingOf(r)) = 104
    /\ Len(req[r].body) = 100

(***************************************************************************)
(* Properties of the comparison sample of a heatmap cell                   *)
(***************************************************************************)
\* the position in the filtered series, counted from the end, of the sample the
\* last one is to be compared with
ClaimedDepth(tf, n) ==
  CASE tf = "1h" /\ n >= 13 -> 13
    [] tf = "4h" /\ n >= 17 -> 17
    [] tf = "1w" /\ n >= 8 -> 8
    [] OTHER -> 2

\* C16: for a filtered series of length n >= 2 the cell compares the last sample
\* with the 13th from the end (1h, n >= 13), the 17th (4h, n >= 17), the 8th
\* (1w, n >= 8) and the second-to-last in every other case; that sample is
\* inside the series; the cell is null when n < 2
ComparisonSampleChosen ==
  cell.set =>
    LET n == Len(cell.series)
        depth == ClaimedDepth(cell.tf, n)
    IN IF n < 2 THEN cell.pct = Null
       ELSE /\ depth \in 1..n
            /\ cell.pct = PctChange(cell.series[n], cell.series[n - depth + 1])
            /\ \A other \in 1..n :
                 other # n - depth + 1 =>
                   cell.pct # PctChange(cell.series[n], cell.series[other])

\* a 1h cell of a series of exactly 13 samples compares the last with the first
DeepSampleAtThreshold ==
  /\ cell.set /\ cell.tf = "1h" /\ Len(cell.series) = 13
  /\ Len(cell.closes) > 13
  /\ cell.pct = PctChange(cell.series[13], cell.series[1])

\* a 4h cell of a series of 16 samples falls back to the second-to-last
ShallowSampleBelowThreshold ==
  /\ cell.set /\ cell.tf = "4h" /\ Len(cell.series) = 16
  /\ cell.pct = PctChange(cell.series[16], cell.series[15])

(***************************************************************************)
(* Properties of the order of the calls within one fetcher                 *)
(***************************************************************************)
\* one loop over n symbols, at position pc with loop index i, having been
\* answered as logged: the call in flight, if any, is that of symbol i, the
\* calls of the i - 1 symbols before it have all been answered, and the loop
\* ends behind the n-th symbol
OneCallAtATime(pc, i, log, n) ==
  /\ i \in 1..n
  /\ pc \in {"http", "sleep", "done"}
  /\ pc = "http" => Len(log) = i - 1
  /\ pc = "sleep" => Len(log) = i
  /\ pc = "done" => Len(log) = n /\ i = n

RECURSIVE InOrderOf(_, _)
\* names holds some of the names of all, in the order they have in all
InOrderOf(names, all) ==
  IF names = <<>> THEN TRUE
  ELSE IF all = <<>> THEN FALSE
  ELSE IF Head(names) = Head(all) THEN InOrderOf(Tail(names), Tail(all))
  ELSE InOrderOf(names, Tail(all))

SymbolNames(symbols) == [n \in DOMAIN symbols |-> symbols[n].name]

\* the requests running, or having run, a fetch cycle of a per-class endpoint
QuoteCycles == {r \in Arrivals : req[r].ep \in QuoteEndpoints /\ ~req[r].hit}
\* the requests running, or having run, a fetch cycle of /api/all-movers
MoverCycles == {r \in Arrivals : req[r].ep = "all-movers" /\ ~req[r].hit}

\* the loops of the per-class endpoints, of the looping mover fetchers and of the
\* index loop issue their calls one at a time in the order of their symbol
\* table, and the list each one builds holds its records in that order
CallsAndRecordsInOrder ==
  /\ \A r \in QuoteCycles :
       LET q == req[r]
           symbols == SymbolsOf(q.ep)
       IN /\ OneCallAtATime(q.pc, q.i, q.log, Len(symbols))
          /\ q.calls - Len(q.log) = IF q.pc = "http" THEN 1 ELSE 0
          /\ q.calls = q.i
          /\ InOrderOf(Names(q.results), SubSeq(SymbolNames(symbols), 1, Len(q.log)))
  /\ \A r \in MoverCycles :
       LET q == req[r]
       IN /\ \A f \in {"crypto", "commodities"} :
               /\ OneCallAtATime(q.fet[f].pc, q.fet[f].i, q.fet[f].log,
                                 Len(FetcherSymbols(f)))
               /\ InOrderOf(Names(q.fet[f].items),
                            SubSeq(SymbolNames(FetcherSymbols(f)), 1, Len(q.fet[f].log)))
          /\ OneCallAtATime(q.fet["stocks"].pc, q.fet["stocks"].i, q.fet["stocks"].log,
                            Len(Sides))
          /\ OneCallAtATime(q.fet["forex"].pc, q.fet["forex"].i, q.fet["forex"].log, 1)
          /\ InOrderOf(Names(q.fet["forex"].items), FOREX_PAIRS)
          /\ q.pc # "join" =>
               /\ OneCallAtATime(q.pc, q.i, q.log, Len(INDEX_SYMBOLS))
               /\ InOrderOf(Names(SubSeq(q.results, Len(q.joined) + 1, Len(q.results))),
                            SubSeq(SymbolNames(INDEX_SYMBOLS), 1, Len(q.log)))

\* the records a per-class endpoint sends are in the order of its symbol table
ResponseInSymbolOrder(r) ==
  InOrderOf(Names(req[r].body), SymbolNames(SymbolsOf(req[r].ep)))

\* C17: within one run of an asset-class fetcher at most one provider call is in
\* flight, the calls are issued in the order of the symbol table, and the
\* records the fetcher returns are in that order
ReturnedInSymbolOrder ==
  /\ CallsAndRecordsInOrder
  /\ \A r \in QuoteCycles : req[r].pc = "done" => ResponseInSymbolOrder(r)

\* C17 as it holds: the same, except that /api/commodities returns the list its
\* loop built sorted by descending magnitude of the change
ReturnedInSymbolOrderBeforeRanking ==
  /\ CallsAndRecordsInOrder
  /\ \A r \in QuoteCycles : req[r].pc = "done" =>
       IF req[r].ep # "commodities" THEN ResponseInSymbolOrder(r)
       ELSE /\ Len(req[r].body) = Len(req[r].results)
            /\ \A n \in DOMAIN req[r].results :
                 \E m \in DOMAIN req[r].body : req[r].body[m].name = req[r].results[n].name
            /\ \A n, m \in DOMAIN req[r].body :
                 n < m => Ge(Abs(req[r].body[n].rawChange), Abs(req[r].body[m].rawChange))

\* /api/commodities answered with its records in another order than that of its
\* symbol table, in which its loop had built them
CommoditiesReturnedRanked ==
  \E r \in QuoteCycles :
    /\ req[r].ep = "commodities" /\ req[r].pc = "done"
    /\ Names(req[r].results) = SymbolNames(EODHD_COMMODITIES)
    /\ ~ResponseInSymbolOrder(r)

\* the crypto fetcher returned the records of all its symbols but the first,
\* whose call had failed, in the order of its table
FetcherReturnedInOrder ==
  \E r \in MoverCycles :
    LET fs == req[r].fet["crypto"]
    IN /\ fs.pc = "done"
       /\ fs.log[1] = "throw"
       /\ Len(fs.items) = Len(CryptoMoverSymbols) - 1
       /\ \A n \in DOMAIN fs.items : fs.items[n].name = CryptoMoverSymbols[n + 1].name

(***************************************************************************)
(* Properties of the delay between two calls of one fetcher                *)
(***************************************************************************)
\* the delay of the loop a request is in: that of its endpoint, 120 ms for the
\* index loop of /api/all-movers
LoopDelay(r) == IF req[r].ep = "all-movers" THEN 120 ELSE SleepOf(req[r].ep)

\* in this step the loop of request r issues the call of its next symbol
NextCallOfLoop(r) ==
  /\ req[r].ep \in QuoteEndpoints \cup {"all-movers"}
  /\ req[r].i >= 1
  /\ req'[r].i = req[r].i + 1

\* in this step fetcher f of request r issues its next call
NextCallOfFetcher(r, f) ==
  /\ req[r].ep = "all-movers"
  /\ req[r].fet[f].i >= 1
  /\ req'[r].fet[f].i = req[r].fet[f].i + 1

\* C18: between two consecutive provider calls of one fetcher run (and of the
\* index loop) the fetcher's fixed delay elapses, whether the earlier call
\* succeeded, threw or returned data that was skipped
DelayBetweenCalls ==
  [][\A r \in ReqIds :
       /\ NextCallOfLoop(r) => now' - now >= LoopDelay(r)
       /\ \A f \in {"crypto", "commodities"} :
            NextCallOfFetcher(r, f) => now' - now >= FetcherSleep(f)]_vars

\* what holds: the delay elapses unless the earlier call returned no data or
\* invalid data (the iteration left by `continue`), and in the looping fetchers
\* only
DelayUnlessSkipped ==
  [][\A r \in ReqIds :
       /\ NextCallOfLoop(r) =>
            \/ now' - now >= LoopDelay(r)
            \/ /\ now' = now
               /\ req'[r].log[Len(req'[r].log)] \notin {"ok", "throw"}
               /\ Len(req'[r].results) = Len(req[r].results)
       /\ \A f \in {"crypto", "commodities"} :
            NextCallOfFetcher(r, f) =>
              \/ now' - now >= FetcherSleep(f)
              \/ /\ now' = now
                 /\ req'[r].fet[f].log[Len(req'[r].fet[f].log)] \notin {"ok", "throw"}
                 /\ Len(req'[r].fet[f].items) = Len(req[r].fet[f].items)]_vars

\* the second call of a per-class endpoint is in flight at the instant the
\* request arrived: the first call returned no data and no delay followed
SecondCallWithoutDelay ==
  \E r \in QuoteCycles :
    /\ req[r].pc = "http" /\ req[r].calls = 2
    /\ req[r].log = <<"nodata">>
    /\ now = req[r].at

\* the second call of a per-class endpoint is in flight one delay after the
\* first one threw
SecondCallAfterDelay ==
  \E r \in QuoteCycles :
    /\ req[r].pc = "http" /\ req[r].calls = 2
    /\ req[r].log = <<"throw">>
    /\ now = req[r].at + SleepOf(req[r].ep)

(***************************************************************************)
(* Properties of the pacing of the heatmaps                                *)
(***************************************************************************)
\* the requests running, or having run, a fetch cycle of a heatmap
HeatmapCycles == {r \in Arrivals : req[r].ep \in HeatmapEndpoints /\ ~req[r].hit}

\* C19: a heatmap fetch cycle issues exactly one call per (symbol, timeframe)
\* pair, in order, and one delay of 100 ms follows each call, whatever the call
\* gave: the cycle makes |symbols| x 4 calls and as many delays
OneCallOneDelayPerCell ==
  \A r \in HeatmapCycles :
    LET q == req[r]
        pairs == Len(SymbolsOf(q.ep)) * 4
        inFlight == IF q.pc = "http" THEN 1 ELSE 0
        asleep == IF q.pc = "sleep" THEN 1 ELSE 0
    IN /\ q.i \in 1..Len(SymbolsOf(q.ep)) /\ q.j \in 1..4
       /\ q.calls = (q.i - 1) * 4 + q.j
       /\ Len(q.log) = q.calls - inFlight
       /\ now - q.at = 100 * (Len(q.log) - asleep)
       /\ q.pc = "done" =>
            /\ q.calls = pairs
            /\ cacheTime[q.ep] - q.at = 100 * pairs

\* /api/crypto-heatmap was answered after 36 calls, all of which failed, and 36
\* delays
FailedCellsPaced ==
  \E r \in HeatmapCycles :
    /\ req[r].ep = "crypto-heatmap" /\ req[r].pc = "done"
    /\ req[r].calls = 36
    /\ \A n \in DOMAIN req[r].log : req[r].log[n] = "throw"
    /\ now - req[r].at = 3600

\* the first cell of a heatmap is null for want of samples and the second call
\* is in flight one delay after the request arrived
NullCellPaced ==
  \E r \in HeatmapCycles :
    /\ req[r].pc = "http" /\ req[r].calls = 2
    /\ req[r].log = <<"short">>
    /\ req[r].tfResults["1h"] = Null
    /\ now - req[r].at = 100

(***************************************************************************)
(* Properties of the cache writes among overlapping requests               *)
(***************************************************************************)
\* the payload the fetch cycle of a request stores, from what it has gathered
PayloadOf(q) ==
  CASE q.ep \in QuoteEndpoints -> QuotePayload(q.ep, q.results)
    [] q.ep = "all-movers" -> Rank(q.results).sorted
    [] OTHER -> q.results

\* every provider call of the fetch cycle of a request has been answered
CycleComplete(q) ==
  CASE q.ep \in QuoteEndpoints -> Len(q.log) = Len(SymbolsOf(q.ep))
    [] q.ep \in HeatmapEndpoints -> Len(q.log) = 4 * Len(SymbolsOf(q.ep))
    [] q.ep = "all-movers" ->
         /\ Len(q.log) = Len(INDEX_SYMBOLS)
         /\ \A f \in FetcherNames : q.fet[f].pc = "done"
    [] OTHER -> Len(q.log) = 1

\* in this step the fetch cycle of request r ends and its result is what slot e
\* holds, with the time of the step as timestamp
CycleEndsInto(r, e) ==
  /\ req[r].ep = e /\ req[r].pc \in {"http", "sleep"}
  /\ req'[r].pc = "done" /\ ~req'[r].hit /\ req'[r].status = 200
  /\ CycleComplete(req'[r])
  /\ cache'[e] = Holding(PayloadOf(req'[r]))
  /\ cacheTime'[e] = now'

\* C20: between two awaits a cache slot is empty with timestamp 0 or changes
\* only in the step that ends a fetch cycle of its endpoint, after the last
\* provider call of that cycle, to the complete payload of that cycle alone and
\* the time of that step, both together
SlotWrittenWholeAtEndOfCycle ==
  [][\A e \in Endpoints :
       /\ (~cache[e].set) => (cache[e] = Empty /\ cacheTime[e] = 0)
       /\ (cache'[e] # cache[e] \/ cacheTime'[e] # cacheTime[e]) =>
            \E r \in ReqIds : CycleEndsInto(r, e)]_vars

\* the slot of /api/indices holds the four records and the time of a finished
\* cycle while another request to /api/indices, which arrived before that cycle
\* ended, is between two calls with a part of its records
SlotWholeWhileOtherCycleRuns ==
  \E r1, r2 \in Arrivals :
    /\ req[r1].ep = "indices" /\ req[r1].pc = "done" /\ ~req[r1].hit
    /\ req[r2].ep = "indices" /\ req[r2].pc = "sleep" /\ ~req[r2].hit
    /\ Len(req[r2].results) \in 1..3
    /\ Len(req[r1].results) = 4
    /\ cache["indices"] = Holding(req[r1].results)
    /\ cacheTime["indices"] = written["indices"].at
    /\ cacheTime["indices"] > 0

\* the second of two overlapping cycles has replaced payload and timestamp of
\* the first: the slot holds its records alone, fewer than the first had
SlotReplacedNotMerged ==
  \E r1, r2 \in Arrivals :
    /\ r1 # r2
    /\ req[r1].ep = "indices" /\ req[r1].pc = "done" /\ ~req[r1].hit
    /\ req[r2].ep = "indices" /\ req[r2].pc = "done" /\ ~req[r2].hit
    /\ Len(req[r1].results) = 4 /\ req[r2].results = <<>>
    /\ cache["indices"] = Holding(<<>>)

(***************************************************************************)
(* Properties of the scheduling inside one cycle of /api/all-movers        *)
(***************************************************************************)
\* what a step may do to the fetchers and the index loop of request r: a fetcher
\* returns only when all four have been called; a fetcher or the index loop
\* issues its next call only when all its calls before are answered; the index
\* loop issues a call only when the four fetchers have returned
FetchersThenIndices(r) ==
  /\ \A f \in FetcherNames :
       /\ (req[r].fet[f].pc # "done" /\ req'[r].fet[f].pc = "done") =>
            \A g \in FetcherNames : req[r].fet[g].pc # "off"
       /\ req'[r].fet[f].i # req[r].fet[f].i =>
            /\ req'[r].fet[f].i = req[r].fet[f].i + 1
            /\ req'[r].fet[f].pc = "http"
            /\ Len(req'[r].fet[f].log) = req[r].fet[f].i
  /\ (req'[r].ep = "all-movers" /\ req'[r].i # req[r].i) =>
       /\ \A f \in FetcherNames : req'[r].fet[f].pc = "done"
       /\ req'[r].i = req[r].i + 1
       /\ req'[r].pc = "http"
       /\ Len(req'[r].log) = req[r].i
       /\ req[r].i = 0 => req[r].pc = "join"

StocksReturnedBeforeOthersStarted ==
  /\ ~EODHD_KEY
  /\ req[1].pc = "join"
  /\ req[1].fet["stocks"].pc = "done" /\ req[1].fet["stocks"].log = <<>>
  /\ \A f \in FetcherNames \ {"stocks"} :
       req[1].fet[f].pc = "http" /\ req[1].fet[f].i = 1 /\ req[1].fet[f].log = <<>>

\* the calls of the fetchers interleave: the commodity fetcher has returned
\* while the crypto fetcher, called before it, waits for its first reply
CommoditiesReturnedBeforeCryptoReply ==
  /\ EODHD_KEY
  /\ req[1].pc = "join"
  /\ req[1].fet["commodities"].pc = "done"
  /\ req[1].fet["crypto"].pc = "http" /\ req[1].fet["crypto"].log = <<>>

\* and the other way round: the crypto fetcher has returned while the commodity
\* fetcher and the stock fetcher wait for their first reply
CryptoReturnedBeforeCommodityReply ==
  /\ EODHD_KEY
  /\ req[1].pc = "join"
  /\ req[1].fet["crypto"].pc = "done"
  /\ req[1].fet["commodities"].pc = "http" /\ req[1].fet["commodities"].log = <<>>
  /\ req[1].fet["stocks"].pc = "http" /\ req[1].fet["stocks"].log = <<>>

RECURSIVE SumOfCalls(_, _)
\* the number of calls the fetchers of fet listed in names have reached
SumOfCalls(fet, names) ==
  IF names = <<>> THEN 0 ELSE fet[Head(names)].i + SumOfCalls(fet, Tail(names))

\* the number of symbols, (symbol, timeframe) pairs or screener sides the
\* fetch cycle of a request has reached so far
Reached(q) ==
  CASE q.hit -> 0
    [] q.ep \in QuoteEndpoints -> q.i
    [] q.ep \in HeatmapEndpoints -> (q.i - 1) * Len(Timeframes) + q.j
    [] q.ep = "all-movers" -> SumOfCalls(q.fet, Fetchers) + q.i
    [] q.ep = "economic-calendar" -> 1
    [] OTHER -> 0

\* the number of them a whole cycle of an endpoint has
Positions(e) ==
  CASE e \in QuoteEndpoints -> Len(SymbolsOf(e))
    [] e \in HeatmapEndpoints -> Len(SymbolsOf(e)) * Len(Timeframes)
    [] e = "all-movers" ->
         Len(Sides) + Len(CryptoMoverSymbols) + 1 + Len(EODHD_COMMODITIES)
           + Len(INDEX_SYMBOLS)
    [] e = "economic-calendar" -> 1
    [] OTHER -> 0

\* the replies a cycle has received so far
Replies(q) ==
  IF q.ep = "all-movers"
    THEN q.fet["stocks"].log \o q.fet["crypto"].log \o q.fet["forex"].log
           \o q.fet["commodities"].log \o q.log
    ELSE q.log

\* C22: no provider call is retried: in every fetch cycle the number of calls
\* issued is the number of symbols (pairs of symbol and timeframe, screener
\* sides) reached, at most that of the tables; a step that issues a call moves
\* on to the next of them whatever the reply before was, and never moves back
NoCallRepeated ==
  [][\A r \in ReqIds :
       LET q == req[r]
           q2 == req'[r]
       IN /\ q2.calls = Reached(q2)
          /\ Reached(q2) <= Positions(q2.ep)
          /\ Len(Replies(q2)) <= q2.calls
          /\ Reached(q2) >= Reached(q)
          /\ q2.i >= q.i
          /\ \A f \in FetcherNames : q2.fet[f].i >= q.fet[f].i
          /\ q2.calls - q.calls = Reached(q2) - Reached(q)]_vars

\* the first call of a cycle of /api/indices threw, and the call in flight is
\* the second call of the cycle, for the second symbol
FailedCallThenNextSymbol ==
  \E r \in Arrivals :
    /\ req[r].ep = "indices" /\ req[r].pc = "http"
    /\ req[r].log = <<"throw">>
    /\ req[r].i = 2 /\ req[r].calls = 2

\* a symbol whose call threw in one cycle is called again in a later cycle of
\* the same endpoint, after the entry of the first cycle has aged out
FailedSymbolCalledInLaterCycle ==
  \E r1, r2 \in Arrivals :
    /\ r1 < r2
    /\ req[r1].ep = "indices" /\ req[r2].ep = "indices"
    /\ req[r1].pc = "done" /\ ~req[r1].hit /\ ~req[r2].hit
    /\ req[r1].calls = Len(INDEX_SYMBOLS)
    /\ req[r1].log[1] = "throw"
    /\ req[r2].log # <<>> /\ req[r2].log[1] = "ok"
    /\ req[r2].at - req[r1].at >= GENERIC_TTL

(***************************************************************************)
(* Properties of waiting: no timeout, and a response when the calls end    *)
(***************************************************************************)
\* what a step may do to request r while it waits: a handler or a fetcher that
\* awaits a provider call moves only by the reply to that call; the handler of
\* /api/all-movers stays at the join while a fetcher has not returned; there is
\* no response and no write of the slot before the cycle has ended; a request
\* that has its response gets no other
WaitsForReplies(r) ==
  LET q == req[r]
      q2 == req'[r]
  IN /\ \A f \in FetcherNames :
          (q.fet[f].pc = "http" /\ q2.fet[f] # q.fet[f]) =>
             Len(q2.fet[f].log) = Len(q.fet[f].log) + 1
     /\ (q.pc = "http" /\ q2 # q) => Len(q2.log) = Len(q.log) + 1
     /\ (q2.pc = "join" \/ q.pc = "join") =>
          ((\E f \in FetcherNames : q2.fet[f].pc # "done") <=> q2.pc = "join")
     /\ q2.pc # "done" =>
          /\ q2.status = 0 /\ q2.body = <<>>
          /\ q2.pc # "idle" =>
               (cache'[q2.ep] = cache[q2.ep] /\ cacheTime'[q2.ep] = cacheTime[q2.ep])
     /\ q2.pc = "done" => q2.status \in {200, 500}
     /\ q.pc = "done" => q2 = q

\* the part of C23 that does not rest on fairness
MovesOnlyByReplies == [][\A r \in ReqIds : WaitsForReplies(r)]_vars

\* C23: there is no timeout and no cancellation: a request waits as long as a
\* provider call of its cycle is not answered, without response and without a
\* write of its cache slot; and when every provider call is answered or fails,
\* every request that has arrived gets a response, and one only
WaitsWithoutTimeoutAndAnswersOnce ==
  /\ [][\A r \in ReqIds : WaitsForReplies(r)]_vars
  /\ \A r \in ReqIds : (req[r].pc # "idle") ~> (req[r].pc = "done")

\* the first call of the crypto fetcher is still not answered when the three
\* other fetchers have made all their calls and returned, 600 ms and more after
\* the request: the handler is at the join, nothing is sent, the slot is empty
RequestHeldByOneCall ==
  /\ req[1].ep = "all-movers" /\ req[1].pc = "join"
  /\ req[1].fet["crypto"].pc = "http" /\ req[1].fet["crypto"].log = <<>>
  /\ \A f \in FetcherNames \ {"crypto"} : req[1].fet[f].pc = "done"
  /\ Len(req[1].fet["commodities"].log) = Len(EODHD_COMMODITIES)
  /\ now - req[1].at >= 600
  /\ req[1].status = 0 /\ req[1].body = <<>>
  /\ ~cache["all-movers"].set

\* every call of the cycle was answered, by data or by an error, and the request
\* has its one response
AnsweredAfterAllCalls ==
  /\ req[1].ep = "all-movers" /\ req[1].pc = "done" /\ ~req[1].hit
  /\ req[1].status = 200
  /\ Len(Replies(req[1])) = Positions("all-movers")
  /\ \E n \in DOMAIN req[1].log : req[1].log[n] = "throw"

(***************************************************************************)
(* Properties of two fetch cycles of one endpoint that overlap             *)
(***************************************************************************)
\* what a step does to request r among overlapping requests: r arriving while
\* the slot of its endpoint holds nothing fresh starts a cycle of its own with
\* its own first call, whether or not another cycle of the endpoint runs; a
\* step moves one request and leaves the others as they are; a cycle ends with
\* all its own calls made and answered, and writes its payload and the time
\* of its end into the slot, whatever another cycle wrote before
OverlappingCycle(r) ==
  LET q == req[r]
      q2 == req'[r]
      e == q2.ep
  IN /\ (q.pc = "idle" /\ q2.pc # "idle"
           /\ ~IsFresh(cache[e], cacheTime[e], now, TTL(e))) =>
          /\ ~q2.hit /\ q2.pc = "http" /\ q2.calls = 1 /\ q2.log = <<>>
          /\ q2.results = <<>>
     /\ q2 # q => \A o \in ReqIds \ {r} : req'[o] = req[o]
     /\ (q.pc \in {"http", "sleep"} /\ q2.pc = "done" /\ q2.status = 200) =>
          /\ q2.calls = Positions(e) /\ Len(q2.log) = Positions(e)
          /\ cache'[e] = Holding(PayloadOf(q2))
          /\ cacheTime'[e] = now'

\* C24: of two requests to one endpoint that find no fresh entry, the second
\* arriving during the cycle of the first, each runs its whole cycle with its
\* own calls and none waits for the other; the slot holds the payload and the
\* timestamp of the cycle that ended last, and the timestamp never decreases
OverlappingCyclesLastWins ==
  [][/\ \A r \in ReqIds : OverlappingCycle(r)
     /\ \A e \in Endpoints : cacheTime'[e] >= cacheTime[e]]_vars

\* C24 as it holds: the same, except that a cycle of /api/economic-calendar
\* that ends with [] for want of events leaves the slot as it was
OverlappingCyclesLastWinsButEmptyCalendar ==
  [][/\ \A r \in ReqIds :
          \/ OverlappingCycle(r)
          \/ /\ req'[r].ep = "economic-calendar"
             /\ req[r].pc = "http" /\ req'[r].pc = "done"
             /\ req'[r].body = <<>> /\ Len(req'[r].log) = 1
             /\ cache' = cache /\ cacheTime' = cacheTime
             /\ \A o \in ReqIds \ {r} : req'[o] = req[o]
     /\ \A e \in Endpoints : cacheTime'[e] >= cacheTime[e]]_vars

\* two cycles of /api/economic-calendar overlapped; the first got events, the
\* second, which ended last, got none: the slot holds the events of the first
CalendarSlotOfEarlierCycle ==
  \E r1, r2 \in Arrivals :
    /\ r1 # r2
    /\ req[r1].ep = "economic-calendar" /\ req[r2].ep = "economic-calendar"
    /\ req[r1].pc = "done" /\ req[r2].pc = "done" /\ ~req[r1].hit /\ ~req[r2].hit
    /\ req[r1].log = <<"ok">> /\ req[r2].log = <<"nodata">>
    /\ provider = "nodata"
    /\ req[r1].body # <<>> /\ req[r2].body = <<>>
    /\ cache["economic-calendar"] = Holding(req[r1].body)

\* two cycles of /api/indices overlapped, the second request arriving before
\* the first cycle had ended; the first made its four calls with data, the
\* second its own four calls without data; the second ended last, and the slot
\* holds its empty payload and the time of its end
SecondCycleEndedLast ==
  \E r1, r2 \in Arrivals :
    /\ r1 < r2
    /\ req[r1].ep = "indices" /\ req[r2].ep = "indices"
    /\ req[r1].pc = "done" /\ req[r2].pc = "done" /\ ~req[r1].hit /\ ~req[r2].hit
    /\ req[r2].seen.set = FALSE
    /\ Len(req[r1].log) = 4 /\ Len(req[r2].log) = 4
    /\ Len(req[r1].results) = 4 /\ req[r2].results = <<>>
    /\ cache["indices"] = Holding(<<>>)
    /\ cacheTime["indices"] = now /\ now > 0

\* the other order: the request that arrived second ended first, and the slot
\* holds the four records of the cycle of the request that arrived first
FirstCycleEndedLast ==
  \E r1, r2 \in Arrivals :
    /\ r1 < r2
    /\ req[r1].ep = "indices" /\ req[r2].ep = "indices"
    /\ req[r1].pc = "done" /\ req[r2].pc = "done" /\ ~req[r1].hit /\ ~req[r2].hit
    /\ Len(req[r1].log) = 4 /\ Len(req[r2].log) = 4
    /\ Len(req[r1].results) = 4 /\ req[r2].results = <<>>
    /\ cache["indices"] = Holding(req[r1].results)
    /\ cacheTime["indices"] = now

\* neither waits: the second request is through its cycle and has its response
\* while the first still waits for the reply to its first call
SecondAnsweredWhileFirstAtFirstCall ==
  \E r1, r2 \in Arrivals :
    /\ r1 < r2
    /\ req[r1].ep = "indices" /\ req[r2].ep = "indices"
    /\ req[r1].pc = "http" /\ req[r1].log = <<>>
    /\ req[r2].pc = "done" /\ ~req[r2].hit /\ Len(req[r2].log) = 4

(***************************************************************************)
(* Properties of what a request leaves alone                               *)
(***************************************************************************)
\* what a step of request r may change of the cache: nothing of the slots of
\* other endpoints; its own slot only in the step that sends its 200; nothing
\* at all in a step that sends 500
WritesOwnSlotWith200(r) ==
  req'[r] # req[r] =>
    /\ \A e \in Endpoints \ {req'[r].ep} :
         cache'[e] = cache[e] /\ cacheTime'[e] = cacheTime[e]
    /\ (cache' # cache \/ cacheTime' # cacheTime) =>
         (req'[r].pc = "done" /\ req'[r].status = 200)
    /\ req'[r].status = 500 => (cache' = cache /\ cacheTime' = cacheTime)

\* C25: a request that ends in HTTP 500 has changed no cache payload and no
\* cache timestamp, and a request to one endpoint changes no slot of another
\* endpoint; a step that is not a step of a handler changes no slot either
FailedRequestLeavesCaches ==
  [][/\ \A r \in ReqIds : WritesOwnSlotWith200(r)
     /\ req' = req => (cache' = cache /\ cacheTime' = cacheTime)]_vars

\* /api/economic-calendar answered 500 to a request that found the entry of an
\* earlier cycle aged out: the slot holds the events and the timestamp of that
\* earlier cycle
CalendarFailedSlotKept ==
  \E r1, r2 \in Arrivals :
    /\ r1 < r2
    /\ req[r1].ep = "economic-calendar" /\ req[r2].ep = "economic-calendar"
    /\ req[r1].pc = "done" /\ req[r1].status = 200 /\ req[r1].body # <<>>
    /\ req[r2].pc = "done" /\ req[r2].status = 500
    /\ req[r2].seen.set /\ req[r2].at - req[r2].seen.at >= CALENDAR_TTL
    /\ cache["economic-calendar"] = Holding(req[r1].body)
    /\ cacheTime["economic-calendar"] = req[r2].seen.at

\* /api/economic-calendar answered 500 after /api/indices had cached its
\* records: the slot of /api/indices is as the cycle of /api/indices left it
CalendarFailedIndicesKept ==
  \E r1, r2 \in Arrivals :
    /\ r1 < r2
    /\ req[r1].ep = "indices" /\ req[r1].pc = "done" /\ ~req[r1].hit
    /\ req[r1].results # <<>>
    /\ req[r2].ep = "economic-calendar" /\ req[r2].status = 500
    /\ cache["indices"] = Holding(req[r1].results)
    /\ ~cache["economic-calendar"].set /\ cacheTime["economic-calendar"] = 0

(***************************************************************************)
(* Properties of /api/sa-markets                                           *)
(***************************************************************************)
\* the section of the response that answers the n-th internal request
SectionOf(n) ==
  CASE n = 1 -> sa.body.indices
    [] n = 2 -> sa.body.forex
    [] OTHER -> sa.body.commodities

\* the internal requests issued so far are the first ones of indices, forex,
\* commodities, and each one but the first was issued after the reply to the
\* one before it
IssuedOneAfterAnother ==
  /\ Len(sa.calls) <= Len(SaSections)
  /\ sa.calls = SubSeq(SaSections, 1, Len(sa.calls))
  /\ IF sa.pc \in {"idle", "done"} THEN Len(sa.replies) = Len(sa.calls)
     ELSE /\ Len(sa.replies) = Len(sa.calls) - 1
          /\ sa.calls[Len(sa.calls)] = sa.pc

\* C26: /api/sa-markets asks /api/indices, /api/forex and /api/commodities one
\* after another in that order; whichever of them fail, it answers 200 with the
\* section of each failed one empty; the indices it returns are those of the
\* JSE and the forex pairs it returns have ZAR as one of their currencies
SaMarketsSequentialAndTolerant ==
  /\ IssuedOneAfterAnother
  /\ sa.pc = "done" =>
       /\ sa.status = 200
       /\ sa.calls = SaSections
       /\ \A n \in 1..Len(SaSections) : ~sa.replies[n] => SectionOf(n) = <<>>
       /\ \A i \in 1..Len(sa.body.indices) : sa.body.indices[i].symbol = "^J200.JO"
       /\ \A i \in 1..Len(sa.body.forex) :
            "ZAR" \in {SplitPair(sa.body.forex[i].pair)[1],
                       SplitPair(sa.body.forex[i].pair)[2]}

\* /api/indices and /api/commodities failed and /api/forex answered with all
\* its pairs: 200 with the three ZAR pairs and two empty sections
AnsweredWithForexOnly ==
  /\ sa.pc = "done" /\ sa.status = 200
  /\ sa.replies = <<FALSE, TRUE, FALSE>>
  /\ Len(sa.allForex) = Len(FOREX_PAIRS)
  /\ [i \in 1..Len(sa.body.forex) |-> sa.body.forex[i].pair] =
       <<"USD/ZAR", "EUR/ZAR", "GBP/ZAR">>
  /\ sa.body.indices = <<>> /\ sa.body.commodities = <<>>

\* the three internal requests all failed: 200 with three empty sections
AnsweredWithNothing ==
  /\ sa.pc = "done" /\ sa.status = 200
  /\ sa.replies = <<FALSE, FALSE, FALSE>>
  /\ sa.body.indices = <<>> /\ sa.body.forex = <<>> /\ sa.body.commodities = <<>>

\* the three internal requests all answered in full: of the four indices the
\* one of the JSE is returned, and gold is priced at the USD/ZAR of /api/forex
AnsweredInFull ==
  /\ sa.pc = "done" /\ sa.replies = <<TRUE, TRUE, TRUE>>
  /\ Len(sa.allIndices) = Len(INDEX_SYMBOLS)
  /\ Len(sa.body.indices) = 1 /\ sa.body.indices[1].name = "JSE Top 40"
  /\ Len(sa.allForex) = Len(FOREX_PAIRS) /\ Len(sa.body.forex) = 3
  /\ Len(sa.body.commodities) = Len(EODHD_COMMODITIES)
  /\ \E i \in 1..Len(sa.body.commodities) :
       /\ sa.body.commodities[i].name = "Gold"
       /\ sa.body.commodities[i].priceZAR.groups = <<99, 592>>

\* /api/forex failed: the commodities are priced at the rate 18.75
PricedAtDefaultRate ==
  /\ sa.pc = "done" /\ sa.replies = <<TRUE, FALSE, TRUE>>
  /\ \E i \in 1..Len(sa.body.commodities) :
       /\ sa.body.commodities[i].name = "Gold"
       /\ sa.body.commodities[i].priceZAR.groups = <<18, 881>>

=============================================================================
